---- MODULE Spec2Model ----
(***************************************************************************)
(* Lexical relevance scorer of climate-health-news:                        *)
(*   src/classify/keyword_classifier.py  (BM25KeywordClassifier,           *)
(*                                        classify_with_keywords)          *)
(*   src/preprocess/make_climate_articles_json.py (calculate_bm25_score)   *)
(*                                                                         *)
(* Texts are sequences of one-character strings.  Floats are fixed-point   *)
(* integers in units of 1/Scale.  A dataframe is column-oriented: an       *)
(* ordered list of column names, the row index, and one store of columns   *)
(* per dtype (object, float64, bool).                                      *)
(***************************************************************************)
EXTENDS Integers, Sequences, FiniteSets, TLC

(***************************************************************************)
(* Bounds of the model.                                                    *)
(***************************************************************************)
MaxDocs == 3
MaxKeywords == 2

(***************************************************************************)
(* Fixed-point floats.                                                     *)
(***************************************************************************)
Scale == 1000000

Float(n) == n * Scale

\* math.log on the positive integers 1..25, in units of 1/Scale
LnTab ==
  << 0, 693147, 1098612, 1386294, 1609438, 1791759, 1945910, 2079442,
     2197225, 2302585, 2397895, 2484907, 2564949, 2639057, 2708050,
     2772589, 2833213, 2890372, 2944439, 2995732, 3044522, 3091042,
     3135494, 3178054, 3218876 >>

\* math.log(x + 0.5) - math.log(y + 0.5) = ln(2x+1) - ln(2y+1)
LogHalfDiff(x, y) == LnTab[2 * x + 1] - LnTab[2 * y + 1]

(***************************************************************************)
(* Strings.                                                                *)
(***************************************************************************)
\* a missing text (None / NaN): pd.isna(text) holds exactly of this value
None == << "NaN" >>

UpperChars ==
  << "A", "B", "C", "D", "E", "F", "G", "H", "I", "J", "K", "L", "M",
     "N", "O", "P", "Q", "R", "S", "T", "U", "V", "W", "X", "Y", "Z" >>

LowerChars ==
  << "a", "b", "c", "d", "e", "f", "g", "h", "i", "j", "k", "l", "m",
     "n", "o", "p", "q", "r", "s", "t", "u", "v", "w", "x", "y", "z" >>

DigitChars == << "0", "1", "2", "3", "4", "5", "6", "7", "8", "9" >>

Range(s) == { s[i] : i \in DOMAIN s }

\* str.lower() on one character
LowerChar(c) ==
  IF c \in Range(UpperChars)
    THEN LowerChars[CHOOSE i \in DOMAIN UpperChars : UpperChars[i] = c]
    ELSE c

\* str.lower()
StrLower(s) == [ i \in DOMAIN s |-> LowerChar(s[i]) ]

IsSpace(c) == c \in { " ", "\t", "\n" }

\* the regex class \w
IsWordChar(c) ==
  c \in Range(UpperChars) \cup Range(LowerChars) \cup Range(DigitChars) \cup { "_" }

\* maximal runs of the characters of s that are not separators; sep[i]
\* tells whether s[i] is one
RECURSIVE Runs(_, _, _, _)
Runs(s, sep, cur, acc) ==
  IF s = << >>
    THEN IF cur = << >> THEN acc ELSE Append(acc, cur)
    ELSE IF Head(sep)
      THEN Runs(Tail(s), Tail(sep), << >>, IF cur = << >> THEN acc ELSE Append(acc, cur))
      ELSE Runs(Tail(s), Tail(sep), Append(cur, Head(s)), acc)

\* str.split() without arguments
StrSplit(s) == Runs(s, [ i \in DOMAIN s |-> IsSpace(s[i]) ], << >>, << >>)

\* str.strip()
RECURSIVE LStrip(_)
LStrip(s) ==
  IF s # << >> /\ IsSpace(Head(s)) THEN LStrip(Tail(s)) ELSE s

RECURSIVE RStrip(_)
RStrip(s) ==
  IF s # << >> /\ IsSpace(s[Len(s)]) THEN RStrip(SubSeq(s, 1, Len(s) - 1)) ELSE s

StrStrip(s) == RStrip(LStrip(s))

\* list.count(x)
RECURSIVE Count(_, _)
Count(s, x) ==
  IF s = << >> THEN 0
  ELSE (IF Head(s) = x THEN 1 ELSE 0) + Count(Tail(s), x)

RECURSIVE SumSeq(_)
SumSeq(s) == IF s = << >> THEN 0 ELSE Head(s) + SumSeq(Tail(s))

RECURSIVE Flatten(_)
Flatten(ss) == IF ss = << >> THEN << >> ELSE Head(ss) \o Flatten(Tail(ss))

\* mutant of DictFromKeys: repeats kept
KeepRepeats(s) == s

\* list(dict.fromkeys(s)): drop repeats, keep the first occurrence of each
RECURSIVE DictFromKeys(_)
DictFromKeys(s) ==
  IF s = << >> THEN << >>
  ELSE LET init == DictFromKeys(SubSeq(s, 1, Len(s) - 1))
           last == s[Len(s)]
       IN IF last \in Range(init) THEN init ELSE Append(init, last)

(***************************************************************************)
(* BM25KeywordClassifier._preprocess_text                                  *)
(***************************************************************************)
preprocess_text(text) ==
  IF text = None THEN << >> ELSE StrSplit(StrLower(text))

(***************************************************************************)
(* rank_bm25.BM25Okapi as the classifier uses it (default k1 = 1.5,        *)
(* b = 0.75, epsilon = 0.25).                                              *)
(***************************************************************************)
\* k1 = K1Num / K1Den,  b = BNum / BDen,  epsilon = 1 / EpsilonInv
K1Num == 3
K1Den == 2
BNum == 3
BDen == 4
EpsilonInv == 4

NotFitted == [ fitted |-> FALSE, corpus_size |-> 0, num_doc |-> 0,
               doc_len |-> << >>, doc_freqs |-> << >>,
               idf |-> [ w \in {} |-> 0 ] ]

\* `frequencies` of one document: word -> number of occurrences
Frequencies(document) == [ w \in Range(document) |-> Count(document, w) ]

\* nd: word -> number of documents with word
DocCount(doc_freqs, w) ==
  Cardinality({ i \in DOMAIN doc_freqs : w \in DOMAIN doc_freqs[i] })

\* the idf of a word before the epsilon floor
RawIdf(corpus_size, freq) == LogHalfDiff(corpus_size - freq, freq)

RECURSIVE SumOver(_, _)
SumOver(S, f) ==
  IF S = {} THEN 0
  ELSE LET x == CHOOSE y \in S : TRUE IN f[x] + SumOver(S \ { x }, f)

\* BM25Okapi(tokenized_corpus): the fitted statistics, or the exception
\* the constructor raises (avgdl = num_doc / corpus_size on an empty corpus,
\* average_idf = idf_sum / len(idf) on a corpus without any token)
BM25Okapi(corpus) ==
  LET corpus_size == Len(corpus)
      doc_len     == [ i \in DOMAIN corpus |-> Len(corpus[i]) ]
      num_doc     == SumSeq(doc_len)
      doc_freqs   == [ i \in DOMAIN corpus |-> Frequencies(corpus[i]) ]
      words       == UNION { Range(corpus[i]) : i \in DOMAIN corpus }
      raw         == [ w \in words |-> RawIdf(corpus_size, DocCount(doc_freqs, w)) ]
      idf_sum     == SumOver(words, raw)
  IN IF corpus_size = 0 \/ words = {}
       THEN [ raise |-> "ZeroDivisionError", bm25 |-> NotFitted ]
       ELSE LET average_idf == idf_sum \div Cardinality(words)
                eps         == average_idf \div EpsilonInv
            IN [ raise |-> "",
                 bm25  |-> [ fitted      |-> TRUE,
                             corpus_size |-> corpus_size,
                             num_doc     |-> num_doc,
                             doc_len     |-> doc_len,
                             doc_freqs   |-> doc_freqs,
                             idf         |-> [ w \in words |->
                                               IF raw[w] < 0 THEN eps ELSE raw[w] ] ] ]

\* one summand of get_scores:
\*   idf[q] * q_freq * (k1 + 1) / (q_freq + k1 * (1 - b + b * doc_len / avgdl))
\* with avgdl = num_doc / corpus_size, numerator and denominator multiplied
\* by K1Den * BDen * num_doc
TermScore(bm, q, i) ==
  LET q_freq == IF q \in DOMAIN bm.doc_freqs[i] THEN bm.doc_freqs[i][q] ELSE 0
      idf    == IF q \in DOMAIN bm.idf THEN bm.idf[q] ELSE 0
      num    == q_freq * (K1Num + K1Den) * BDen * bm.num_doc
      den    == q_freq * K1Den * BDen * bm.num_doc
                + K1Num * ((BDen - BNum) * bm.num_doc
                           + BNum * bm.doc_len[i] * bm.corpus_size)
  IN (idf * num) \div den

\* BM25Okapi.get_scores(query): one score per document of the fitted corpus
get_scores(bm, query) ==
  [ i \in 1..bm.corpus_size |->
      SumSeq([ j \in DOMAIN query |-> TermScore(bm, query[j], i) ]) ]

(***************************************************************************)
(* Dataframes.                                                             *)
(***************************************************************************)
NoColumns == [ c \in {} |-> << >> ]

EmptyFrame == [ columns |-> << >>, index |-> << >>,
                obj |-> NoColumns, f64 |-> NoColumns, bool |-> NoColumns ]

HasColumn(d, c) == c \in Range(d.columns)

NRows(d) == Len(d.index)

Put(store, c, values) ==
  [ k \in DOMAIN store \cup { c } |-> IF k = c THEN values ELSE store[k] ]

Drop(store, c) == [ k \in DOMAIN store \ { c } |-> store[k] ]

\* df[c] = values : a new column goes last, an existing one is replaced in
\* place and takes the dtype of the values
SetColumn(d, c, dtype, values) ==
  [ columns |-> IF HasColumn(d, c) THEN d.columns ELSE Append(d.columns, c),
    index   |-> d.index,
    obj     |-> IF dtype = "object" THEN Put(d.obj, c, values) ELSE Drop(d.obj, c),
    f64     |-> IF dtype = "float64" THEN Put(d.f64, c, values) ELSE Drop(d.f64, c),
    bool    |-> IF dtype = "bool" THEN Put(d.bool, c, values) ELSE Drop(d.bool, c) ]

\* DataFrame.take(positions): the rows at the positions, index labels kept
TakeRows(d, positions) ==
  LET pick(col) == [ j \in DOMAIN positions |-> col[positions[j]] ]
  IN [ columns |-> d.columns,
       index   |-> pick(d.index),
       obj     |-> [ c \in DOMAIN d.obj |-> pick(d.obj[c]) ],
       f64     |-> [ c \in DOMAIN d.f64 |-> pick(d.f64[c]) ],
       bool    |-> [ c \in DOMAIN d.bool |-> pick(d.bool[c]) ] ]

\* Series.fillna('')
FillNa(col) == [ i \in DOMAIN col |-> IF col[i] = None THEN << >> ELSE col[i] ]

\* mutant of DfCopy: no copy, df_copy is the caller's frame itself
DfAlias(d) == [ frame |-> d, shared |-> TRUE ]

\* df.copy(): a frame of its own, so that writes to it leave df alone
DfCopy(d) == [ frame |-> d, shared |-> FALSE ]

(***************************************************************************)
(* BM25KeywordClassifier                                                   *)
(***************************************************************************)
\* fit(corpus)
fit(corpus) == BM25Okapi([ i \in DOMAIN corpus |-> preprocess_text(corpus[i]) ])

\* mutant of KeywordCount: a token that several keywords share is counted
\* for one of them only
KeywordCountDistinct(kw, text) ==
  LET doc_tokens == preprocess_text(text)
      query == DictFromKeys(Flatten([ k \in DOMAIN kw |-> preprocess_text(kw[k]) ]))
  IN Float(SumSeq([ j \in DOMAIN query |-> Count(doc_tokens, query[j]) ]))

\* the keyword-count of score(text), in float units
KeywordCount(kw, text) ==
  LET doc_tokens == preprocess_text(text)
      hits(keyword) ==
        LET keyword_tokens == preprocess_text(keyword)
        IN SumSeq([ j \in DOMAIN keyword_tokens |->
                      IF keyword_tokens[j] \in Range(doc_tokens)
                        THEN Count(doc_tokens, keyword_tokens[j]) ELSE 0 ])
  IN Float(SumSeq([ k \in DOMAIN kw |-> hits(kw[k]) ]))

\* mutant of score: the fitted-state check left out
scoreUnchecked(kw, bm, text) == [ raise |-> "", value |-> KeywordCount(kw, text) ]

\* score(text)
score(kw, bm, text) ==
  IF ~bm.fitted
    THEN [ raise |-> "ValueError: BM25 model not fitted. Call fit() first.",
           value |-> 0 ]
    ELSE [ raise |-> "", value |-> KeywordCount(kw, text) ]

\* the query of classify_dataframe: the tokens of every keyword, flattened
QueryTokens(kw) ==
  DictFromKeys(Flatten([ k \in DOMAIN kw |-> preprocess_text(kw[k]) ]))

\* mutant of Classification: an exclusive threshold
ClassificationExclusive(s, threshold) == s > threshold

\* df_copy[score_column] >= threshold, for one row
Classification(s, threshold) == s >= threshold

\* classify_dataframe: what it raises or returns, the fitted state it
\* leaves in self.bm25, its local query_tokens and the caller's frame after
\* the call
classify_dataframe(kw, bm, d, text_field, threshold, score_column, classification_column) ==
  LET cp      == DfCopy(d)
      df_copy == cp.frame
  IN IF ~HasColumn(df_copy, text_field)
       THEN [ raise |-> "ValueError: Text field not found in dataframe",
              frame |-> EmptyFrame, bm25 |-> bm, query_tokens |-> << >>,
              input |-> d ]
       ELSE
         LET corpus == FillNa(df_copy.obj[text_field])
             fitted == fit(corpus)
         IN IF fitted.raise # ""
              THEN [ raise |-> fitted.raise, frame |-> EmptyFrame, bm25 |-> bm,
                     query_tokens |-> << >>, input |-> d ]
              ELSE
                LET query_tokens == QueryTokens(kw)
                    scores  == get_scores(fitted.bm25, query_tokens)
                    scored  == SetColumn(df_copy, score_column, "float64", scores)
                    labels  == [ i \in DOMAIN scores |->
                                   Classification(scored.f64[score_column][i], threshold) ]
                    out     == SetColumn(scored, classification_column, "bool", labels)
                IN [ raise |-> "", frame |-> out, bm25 |-> fitted.bm25,
                     query_tokens |-> query_tokens,
                     input |-> IF cp.shared THEN out ELSE d ]

\* the positions of the rows by descending score, rows of equal score in
\* their order in the frame
StableDescending(scores) ==
  LET rank(i) == Cardinality({ j \in DOMAIN scores :
                     scores[j] > scores[i] \/ (scores[j] = scores[i] /\ j < i) }) + 1
  IN [ r \in DOMAIN scores |-> CHOOSE i \in DOMAIN scores : rank(i) = r ]

\* every order of the positions by descending score
DescendingOrders(scores) ==
  { p \in [ DOMAIN scores -> DOMAIN scores ] :
      /\ \A i, j \in DOMAIN p : i # j => p[i] # p[j]
      /\ \A i, j \in DOMAIN p : i < j => scores[p[i]] >= scores[p[j]] }

\* DataFrame.nlargest(n, column) on a float column, keep = 'first': the
\* row positions it may select.  n <= 0 selects nothing.  n < len(df)
\* selects through a stable merge sort.  n >= len(df) goes through
\* sort_values(ascending=False) with its default kind 'quicksort', which
\* leaves the order of rows of equal value unspecified.
NLargest(scores, n) ==
  IF n <= 0 THEN { << >> }
  ELSE IF n >= Len(scores) THEN DescendingOrders(scores)
  ELSE { SubSeq(StableDescending(scores), 1, n) }

\* get_top_documents: the exception, or the frames it may return
get_top_documents(d, text_field, n, score_column) ==
  IF ~HasColumn(d, score_column)
    THEN [ raise |-> "ValueError: Score column not found. Run classify_dataframe first.",
           frames |-> {} ]
    ELSE [ raise |-> "",
           frames |-> { TakeRows(d, p) : p \in NLargest(d.f64[score_column], n) } ]

(***************************************************************************)
(* classify_with_keywords: a classifier of its own, dropped on return      *)
(***************************************************************************)
classify_with_keywords(d, text_field, kw, threshold, score_column, classification_column) ==
  classify_dataframe(kw, NotFitted, d, text_field, threshold,
                     score_column, classification_column)

(***************************************************************************)
(* make_climate_articles_json.py                                           *)
(***************************************************************************)
\* tokenize_text: re.findall(r'\b\w+\b', text.lower())
tokenize_text(text) ==
  IF text = None \/ text = << >> THEN << >>
  ELSE LET lower == StrLower(text)
       IN Runs(lower, [ i \in DOMAIN lower |-> ~IsWordChar(lower[i]) ], << >>, << >>)

\* calculate_bm25_score(text, keywords)
calculate_bm25_score(text, kws) ==
  IF text = None \/ text = << >> \/ kws = << >> THEN 0
  ELSE
    LET doc_tokens == tokenize_text(text)
        Kept(kw) == kw # << >> /\ StrStrip(kw) # << >> /\ tokenize_text(kw) # << >>
        kept == SelectSeq(kws, Kept)
        keyword_corpus == [ k \in DOMAIN kept |-> tokenize_text(kept[k]) ]
    IN IF doc_tokens = << >> THEN 0
       ELSE IF keyword_corpus = << >> THEN 0
       ELSE SumSeq(get_scores(BM25Okapi(keyword_corpus).bm25, doc_tokens))

(***************************************************************************)
(* src/utils.py: load_keywords                                             *)
(***************************************************************************)
\* str.isupper(): some cased character and no lowercase one
StrIsUpper(s) ==
  /\ \E i \in DOMAIN s : s[i] \in Range(UpperChars)
  /\ \A i \in DOMAIN s : s[i] \notin Range(LowerChars)

\* normalize_keyword: acronyms stay, everything else is lowercased
normalize_keyword(keyword) ==
  IF StrIsUpper(keyword) /\ Len(keyword) > 1 THEN keyword ELSE StrLower(keyword)

\* the keywords file as open() and json.load() find it: not there, not
\* JSON, or an object language -> list of keywords
AbsentFile == [ kind |-> "absent", json |-> [ l \in {} |-> << >> ] ]

MalformedFile == [ kind |-> "malformed", json |-> [ l \in {} |-> << >> ] ]

JsonFile(keywords_dict) == [ kind |-> "json", json |-> keywords_dict ]

\* load_keywords(language, keywords_file): every failure is an empty list
load_keywords(language, keywords_file) ==
  IF keywords_file.kind # "json"
    THEN << >>
    ELSE LET keywords_dict == keywords_file.json
         IN IF language \notin DOMAIN keywords_dict
              THEN << >>
              ELSE LET kws == keywords_dict[language]
                   IN IF kws = << >>
                        THEN << >>
                        ELSE [ k \in DOMAIN kws |-> normalize_keyword(kws[k]) ]

(***************************************************************************)
(* src/validation/get_validation_samples.py: classify_by_language          *)
(***************************************************************************)
\* the positions of the rows a boolean mask selects, in row order
RECURSIVE Where(_)
Where(mask) ==
  IF mask = << >> THEN << >>
  ELSE LET init == Where(SubSeq(mask, 1, Len(mask) - 1))
       IN IF mask[Len(mask)] THEN Append(init, Len(mask)) ELSE init

\* df[col].dropna().unique(): the values in order of first appearance
Unique(col) ==
  LET present == Where([ i \in DOMAIN col |-> col[i] # None ])
  IN DictFromKeys([ j \in DOMAIN present |-> col[present[j]] ])

\* pd.concat(frames, ignore_index=False) of frames with the same columns
RECURSIVE Concat(_)
Concat(frames) ==
  IF Len(frames) = 1 THEN frames[1]
  ELSE LET a == frames[1]
           b == Concat(Tail(frames))
       IN [ columns |-> a.columns,
            index   |-> a.index \o b.index,
            obj     |-> [ c \in DOMAIN a.obj |-> a.obj[c] \o b.obj[c] ],
            f64     |-> [ c \in DOMAIN a.f64 |-> a.f64[c] \o b.f64[c] ],
            bool    |-> [ c \in DOMAIN a.bool |-> a.bool[c] \o b.bool[c] ] ]

\* DataFrame.sort_index() on an index without repeats; v is the frame,
\* computed once
SortIndex(d) ==
  CHOOSE sorted \in
    { TakeRows(v, [ k \in 1..NRows(v) |->
                      CHOOSE p \in 1..NRows(v) :
                        Cardinality({ q \in 1..NRows(v) : v.index[q] < v.index[p] }) = k - 1 ])
      : v \in { d } } : TRUE

\* mutant of LangColumnCheck: the check left out
LangColumnUnchecked(d, lang_column) == ""

\* if lang_column not in df.columns: raise ValueError(...)
LangColumnCheck(d, lang_column) ==
  IF ~HasColumn(d, lang_column)
    THEN "ValueError: Language column not found in dataframe"
    ELSE ""

\* mutant of Unclassified: the rows are labelled relevant
UnclassifiedRelevant(lang_df, score_column, classification_column) ==
  SetColumn(SetColumn(lang_df, score_column, "float64",
                      [ i \in DOMAIN lang_df.index |-> 0 ]),
            classification_column, "bool", [ i \in DOMAIN lang_df.index |-> TRUE ])

\* lang_df[score_column] = 0.0; lang_df[classification_column] = False
Unclassified(lang_df, score_column, classification_column) ==
  SetColumn(SetColumn(lang_df, score_column, "float64",
                      [ i \in DOMAIN lang_df.index |-> 0 ]),
            classification_column, "bool", [ i \in DOMAIN lang_df.index |-> FALSE ])

\* df[df[lang_column] == lang].copy()
LangGroup(d, lang_column, lang) ==
  TakeRows(d, Where([ i \in DOMAIN d.index |-> d.obj[lang_column][i] = lang ]))

\* one pass of the loop over the languages: the group's frame, or what
\* classify_with_keywords raised on it
ClassifyGroup(d, lang, text_field, threshold, lang_column, keywords_file, score_column, classification_column) ==
  LET lang_df == LangGroup(d, lang_column, lang)
      kws     == load_keywords(lang, keywords_file)
  IN IF kws = << >>
       THEN [ raise |-> "",
              frame |-> Unclassified(lang_df, score_column, classification_column) ]
       ELSE LET r == classify_with_keywords(lang_df, text_field, kws, threshold,
                                            score_column, classification_column)
            IN [ raise |-> r.raise, frame |-> r.frame ]

\* mutant of MissingLang: the rows with a missing language are left out
MissingLangDropped(d, lang_column, score_column, classification_column) == << >>

\* the rows with a missing language, unclassified, if there are any
MissingLang(d, lang_column, score_column, classification_column) ==
  LET missing_lang_df ==
        TakeRows(d, Where([ i \in DOMAIN d.index |-> d.obj[lang_column][i] = None ]))
  IN IF NRows(missing_lang_df) > 0
       THEN << Unclassified(missing_lang_df, score_column, classification_column) >>
       ELSE << >>

\* classify_by_language: what it raises or returns, and the languages whose
\* group it classified before that; results is the outcome of every pass of
\* the loop and classified_dfs the list handed to pd.concat, each computed once
classify_by_language(d, text_field, threshold, lang_column, keywords_file, score_column, classification_column) ==
  LET check == LangColumnCheck(d, lang_column)
  IN IF check # ""
       THEN [ raise |-> check, frame |-> EmptyFrame, groups |-> << >> ]
     ELSE IF ~HasColumn(d, lang_column)
       THEN [ raise |-> "KeyError", frame |-> EmptyFrame, groups |-> << >> ]
     ELSE
       LET languages == Unique(d.obj[lang_column])
       IN CHOOSE outcome \in
            { LET failed == { j \in DOMAIN languages : results[j].raise # "" }
                  first  == CHOOSE j \in failed : \A k \in failed : j <= k
              IN IF failed # {}
                   THEN [ raise  |-> results[first].raise, frame |-> EmptyFrame,
                          groups |-> SubSeq(languages, 1, first - 1) ]
                   ELSE CHOOSE combined \in
                     { IF classified_dfs = << >>
                         THEN [ raise  |-> "ValueError: No objects to concatenate",
                                frame  |-> EmptyFrame, groups |-> languages ]
                         ELSE [ raise  |-> "",
                                frame  |-> SortIndex(Concat(classified_dfs)),
                                groups |-> languages ]
                       : classified_dfs \in
                           { [ j \in DOMAIN languages |-> results[j].frame ]
                             \o MissingLang(d, lang_column, score_column,
                                            classification_column) } } : TRUE
              : results \in
                  { [ j \in DOMAIN languages |->
                        ClassifyGroup(d, languages[j], text_field, threshold,
                                      lang_column, keywords_file,
                                      score_column, classification_column) ]
                    \o << >> } } : TRUE

(***************************************************************************)
(* src/preprocess/merge_classifications.py and the reader of its output    *)
(* in src/preprocess/make_climate_articles_json.py.                        *)
(*                                                                         *)
(* A JSONL file is a sequence of lines.  A line is not JSON (json.loads    *)
(* raises JSONDecodeError), or JSON that is not an object, or an object: a *)
(* function from its keys to its values.  JSON null / Python None is Null; *)
(* true and false are "true" and "false".                                  *)
(***************************************************************************)
Null == "null"

NoKeys == [ k \in {} |-> Null ]

InvalidLine == [ valid |-> FALSE, object |-> FALSE, value |-> NoKeys ]

\* a line such as []: json.loads gives a list, which has no .get
NonObjectLine == [ valid |-> TRUE, object |-> FALSE, value |-> NoKeys ]

\* json.dumps(obj) + '\n', and json.loads of such a line
JsonLine(obj) == [ valid |-> TRUE, object |-> TRUE, value |-> obj ]

\* dict.get(key)
Get(obj, key) == IF key \in DOMAIN obj THEN obj[key] ELSE Null

\* the truth value of a JSON value in an if
Truthy(v) == v \notin { Null, "", "false" }

\* a file that is not there, and a file with its lines
NoFile == [ exists |-> FALSE, lines |-> << >> ]

File(lines) == [ exists |-> TRUE, lines |-> lines ]

\* mutant of OpenForWriting: mode 'a', the old lines stay
OpenForAppending(file) == file.lines

\* open(output_file, 'w'): the file is created or emptied
OpenForWriting(file) == << >>

\* the three fields kept of a classification record
Kept(record) ==
  [ is_climate_or_energy |-> Get(record, "is_climate_or_energy"),
    justification        |-> Get(record, "justification"),
    error                |-> Get(record, "error") ]

\* the first loop: the dictionary uri -> classification, or the
\* AttributeError of record.get on a line that is no object
RECURSIVE LoadClassifications(_, _, _)
LoadClassifications(lines, id_field, classifications) ==
  IF lines = << >>
    THEN [ raise |-> "", classifications |-> classifications ]
  ELSE IF ~Head(lines).valid
    THEN LoadClassifications(Tail(lines), id_field, classifications)
  ELSE IF ~Head(lines).object
    THEN [ raise |-> "AttributeError", classifications |-> classifications ]
  ELSE IF Truthy(Get(Head(lines).value, id_field))
    THEN LoadClassifications(Tail(lines), id_field,
                             Put(classifications, Get(Head(lines).value, id_field),
                                 Kept(Head(lines).value)))
  ELSE LoadClassifications(Tail(lines), id_field, classifications)

\* mutant of NotClassified: an article without a classification is
\* labelled not relevant
NotClassifiedNegative ==
  [ is_climate_or_energy |-> "false", justification |-> Null, error |-> Null ]

\* the classification of an article without one
NotClassified ==
  [ is_climate_or_energy |-> Null, justification |-> Null,
    error |-> "Not classified" ]

\* mutant of Matched: no article finds its classification
MatchedNever(article, id_field, classifications) == FALSE

\* uri and uri in classifications
Matched(article, id_field, classifications) ==
  /\ Truthy(Get(article, id_field))
  /\ Get(article, id_field) \in DOMAIN classifications

\* the second loop, for one line of the articles file: the line written,
\* if any
MergeLine(line, id_field, classifications) ==
  IF ~line.valid
    THEN << >>
    ELSE << JsonLine(Put(line.value, "classification",
                         IF Matched(line.value, id_field, classifications)
                           THEN classifications[Get(line.value, id_field)]
                           ELSE NotClassified)) >>

\* what the merge prints: the classifications loaded, the lines of the
\* articles file, the articles matched and unmatched
NoSummary == [ raise |-> "", done |-> FALSE, loaded |-> 0, total |-> 0,
               matched |-> 0, unmatched |-> 0 ]

\* merge_classifications(articles_file, classifications_file, output_file,
\* id_field): the exception it ends with if any, the output file it leaves
\* and the counts it prints
merge_classifications(article_lines, classification_lines, output, id_field) ==
  LET loaded == LoadClassifications(classification_lines, id_field, NoKeys)
      classifications == loaded.classifications
      valid == Where([ i \in DOMAIN article_lines |-> article_lines[i].valid ])
      hits  == Where([ i \in DOMAIN article_lines |->
                         /\ article_lines[i].valid
                         /\ Matched(article_lines[i].value, id_field, classifications) ])
  IN IF loaded.raise # ""
       THEN [ raise |-> loaded.raise, output_file |-> output,
              summary |-> [ NoSummary EXCEPT !.raise = loaded.raise ] ]
       ELSE [ raise |-> "",
              output_file |->
                File(OpenForWriting(output)
                     \o Flatten([ i \in DOMAIN article_lines |->
                                    MergeLine(article_lines[i], id_field, classifications) ])),
              summary |-> [ raise |-> "", done |-> TRUE,
                            loaded    |-> Cardinality(DOMAIN classifications),
                            total     |-> Len(article_lines),
                            matched   |-> Len(hits),
                            unmatched |-> Len(valid) - Len(hits) ] ]

\* make_climate_articles_json.py: the articles of the merged file whose
\* classification says climate or energy, their classification deleted
AppendedArticles(lines) ==
  LET chosen == Where([ i \in DOMAIN lines |->
                          Truthy(Get(Get(lines[i].value, "classification"),
                                     "is_climate_or_energy")) ])
  IN [ j \in DOMAIN chosen |->
         [ k \in DOMAIN lines[chosen[j]].value \ { "classification" } |->
             lines[chosen[j]].value[k] ] ]

(***************************************************************************)
(* Inputs.                                                                 *)
(***************************************************************************)
\* None, '', 'A b', 'a  a'
Texts ==
  { None, << >>, << "A", " ", "b" >>, << "a", " ", " ", "a" >> }

\* the texts handed to calculate_bm25_score
ArticleTexts == Texts \cup { << " " >>, << "a", ".", "b" >> }

\* ' ', 'a', 'B a'
KeywordPhrases == { << " " >>, << "a" >>, << "B", " ", "a" >> }

SeqsUpTo(S, n) == UNION { [ 1..k -> S ] : k \in 0..n }

\* ['climate change is real', 'sports news today']
Scenario1Corpus ==
  << << "c", "l", "i", "m", "a", "t", "e", " ", "c", "h", "a", "n", "g", "e",
        " ", "i", "s", " ", "r", "e", "a", "l" >>,
     << "s", "p", "o", "r", "t", "s", " ", "n", "e", "w", "s", " ",
        "t", "o", "d", "a", "y" >> >>

\* ['climate change', 'global warming']
Scenario1Keywords ==
  << << "c", "l", "i", "m", "a", "t", "e", " ", "c", "h", "a", "n", "g", "e" >>,
     << "g", "l", "o", "b", "a", "l", " ", "w", "a", "r", "m", "i", "n", "g" >> >>

Corpora == SeqsUpTo(Texts, MaxDocs) \cup { Scenario1Corpus }

KeywordLists == SeqsUpTo(KeywordPhrases, MaxKeywords) \cup { Scenario1Keywords }

\* the caller's dataframe: a uri column and a text column, default index
MakeFrame(corpus) ==
  [ columns |-> << "uri", "text" >>,
    index   |-> [ i \in DOMAIN corpus |-> i - 1 ],
    obj     |-> [ c \in { "uri", "text" } |->
                  IF c = "text" THEN corpus
                  ELSE [ i \in DOMAIN corpus |-> << "u", DigitChars[i] >> ] ],
    f64     |-> NoColumns,
    bool    |-> NoColumns ]

\* thresholds 0.0 and 1.0
Thresholds == { 0, Float(1) }

TextFields == { "text", "body" }

ScoreColumns == { "bm25_score", "text" }

ClassificationColumns == { "bm25_classification" }

TopN == 0..(MaxDocs + 1)

(***************************************************************************)
(* State: one classifier instance, the caller's dataframe, and the call    *)
(* in hand with what it raised or returned.  The caller makes one call at  *)
(* a time and drops its outcome before the next; only the frame a          *)
(* classification returned is passed on, to get_top_documents.             *)
(***************************************************************************)
VARIABLES keywords, bm25, df, call, ret, query_tokens,
          articles_file, classifications_file, output_file, summary, runs,
          articles

\* the classifier, its caller's frame and the call in hand
scorerVars == << keywords, bm25, df, call, ret, query_tokens >>

\* the three files of merge_classifications, what its last run printed, the
\* number of its runs, and the articles list of make_climate_articles_json
mergeVars == << articles_file, classifications_file, output_file, summary, runs,
               articles >>

\* process_articles of classify_climate.py, which reads articles_file and
\* appends to classifications_file: its two parameters, the tasks handed to
\* asyncio.gather with the position of each, the value of the semaphore,
\* whether gather is awaited, and for each id the number of classify_one
\* calls made for it
VARIABLES max_concurrent, max_retries, tasks, semaphore, gathering, classified

classifyVars == << max_concurrent, max_retries, tasks, semaphore, gathering,
                  classified >>

\* make_climate_articles_json.py up to all_articles: the article files of
\* data/articles_concepts and data/articles in the order glob gives them,
\* its three dictionaries, the uris calculate_bm25_score was called for, and
\* the part of the script that has run
VARIABLES concept_files, keyword_files, unique_articles, articles_with_scores,
          all_articles, scored, stage

collectVars == << concept_files, keyword_files, unique_articles,
                 articles_with_scores, all_articles, scored, stage >>

\* fetch_articles_concurrent of newsapi_uri_finder.py: its argument, the
\* future of each submitted fetch, the results list, and where the call is
VARIABLES domain_urls, futures, results, fetching

fetchVars == << domain_urls, futures, results, fetching >>

\* the stages of the pipeline other than the scorer and the merge
stageVars == << classifyVars, collectVars, fetchVars >>

vars == << scorerVars, mergeVars, stageVars >>

\* process_articles has not been called
NoClassify ==
  /\ max_concurrent = 0
  /\ max_retries = 0
  /\ tasks = << >>
  /\ semaphore = 0
  /\ gathering = FALSE
  /\ classified = << >>

\* make_climate_articles_json.py has not run
NoCollect ==
  /\ concept_files = << >>
  /\ keyword_files = << >>
  /\ unique_articles = << >>
  /\ articles_with_scores = << >>
  /\ all_articles = << >>
  /\ scored = {}
  /\ stage = ""

\* fetch_articles_concurrent has not been called
NoFetch ==
  /\ domain_urls = << >>
  /\ futures = << >>
  /\ results = << >>
  /\ fetching = ""

NoStage == NoClassify /\ NoCollect /\ NoFetch

\* no file has been written and nothing has been merged
NoMerge ==
  /\ articles_file = << >>
  /\ classifications_file = << >>
  /\ output_file = NoFile
  /\ summary = NoSummary
  /\ runs = 0
  /\ articles = << >>

NoCall == [ op |-> "", text |-> << >>, text_field |-> "", threshold |-> 0,
            score_column |-> "", classification_column |-> "", n |-> 0,
            frame |-> EmptyFrame, lang_column |-> "", keywords_file |-> AbsentFile ]

NoRet == [ kind |-> "none", exc |-> "", value |-> 0, frame |-> EmptyFrame,
           groups |-> << >> ]

Raise(exc) == [ NoRet EXCEPT !.kind = "raise", !.exc = exc ]

ReturnFloat(x) == [ NoRet EXCEPT !.kind = "float", !.value = x ]

ReturnFrame(d) == [ NoRet EXCEPT !.kind = "frame", !.frame = d ]

ReturnSelf == [ NoRet EXCEPT !.kind = "self" ]

\* BM25KeywordClassifier(keywords)
Init ==
  /\ keywords \in KeywordLists
  /\ bm25 = NotFitted
  /\ df \in { MakeFrame(c) : c \in Corpora }
  /\ call = NoCall
  /\ ret = NoRet
  /\ query_tokens = << >>
  /\ NoMerge
  /\ NoStage

Idle == call.op = ""

\* classifier.fit(df['text'].tolist())
Fit ==
  LET r == fit(df.obj["text"])
  IN /\ Idle
     /\ call' = [ NoCall EXCEPT !.op = "fit", !.frame = df ]
     /\ bm25' = IF r.raise = "" THEN r.bm25 ELSE bm25
     /\ ret' = IF r.raise = "" THEN ReturnSelf ELSE Raise(r.raise)
     /\ query_tokens' = << >>
     /\ UNCHANGED << keywords, df >>
     /\ UNCHANGED mergeVars
     /\ UNCHANGED stageVars

\* classifier.score(text)
Score ==
  \E text \in Texts :
    LET r == score(keywords, bm25, text)
    IN /\ Idle
       /\ call' = [ NoCall EXCEPT !.op = "score", !.text = text ]
       /\ ret' = IF r.raise = "" THEN ReturnFloat(r.value) ELSE Raise(r.raise)
       /\ query_tokens' = IF r.raise = ""
                            THEN Flatten([ k \in DOMAIN keywords |->
                                           preprocess_text(keywords[k]) ])
                            ELSE << >>
       /\ UNCHANGED << keywords, bm25, df >>
       /\ UNCHANGED mergeVars
       /\ UNCHANGED stageVars

\* classifier.classify_dataframe(df, text_field, threshold, score_column,
\*                               classification_column)
ClassifyDataframe ==
  \E text_field \in TextFields, threshold \in Thresholds,
     score_column \in ScoreColumns, classification_column \in ClassificationColumns :
    LET r == classify_dataframe(keywords, bm25, df, text_field, threshold,
                                score_column, classification_column)
    IN /\ Idle
       /\ call' = [ NoCall EXCEPT !.op = "classify_dataframe",
                                  !.text_field = text_field,
                                  !.threshold = threshold,
                                  !.score_column = score_column,
                                  !.classification_column = classification_column,
                                  !.frame = df ]
       /\ bm25' = r.bm25
       /\ df' = r.input
       /\ ret' = IF r.raise = "" THEN ReturnFrame(r.frame) ELSE Raise(r.raise)
       /\ query_tokens' = r.query_tokens
       /\ UNCHANGED keywords
       /\ UNCHANGED mergeVars
       /\ UNCHANGED stageVars

\* classify_with_keywords(df, 'text', keywords, threshold)
ClassifyWithKeywords ==
  \E threshold \in Thresholds :
    LET r == classify_with_keywords(df, "text", keywords, threshold,
                                    "bm25_score", "bm25_classification")
    IN /\ Idle
       /\ call' = [ NoCall EXCEPT !.op = "classify_with_keywords",
                                  !.text_field = "text",
                                  !.threshold = threshold,
                                  !.score_column = "bm25_score",
                                  !.classification_column = "bm25_classification",
                                  !.frame = df ]
       /\ df' = r.input
       /\ ret' = IF r.raise = "" THEN ReturnFrame(r.frame) ELSE Raise(r.raise)
       /\ query_tokens' = r.query_tokens
       /\ UNCHANGED << keywords, bm25 >>
       /\ UNCHANGED mergeVars
       /\ UNCHANGED stageVars

\* the frame the caller has at hand: the one the classification in hand
\* returned, or else its own
FramesAtHand ==
  IF Idle THEN { df }
  ELSE IF ret.kind = "frame" /\ call.op = "classify_dataframe"
    THEN { ret.frame }
  ELSE {}

\* classifier.get_top_documents(frame, 'text', n)
GetTopDocuments ==
  \E d \in FramesAtHand, n \in TopN :
    LET r == get_top_documents(d, "text", n, "bm25_score")
    IN /\ call' = [ NoCall EXCEPT !.op = "get_top_documents", !.text_field = "text",
                                  !.n = n, !.score_column = "bm25_score",
                                  !.frame = d ]
       /\ IF r.raise = "" THEN \E top \in r.frames : ret' = ReturnFrame(top)
                          ELSE ret' = Raise(r.raise)
       /\ query_tokens' = << >>
       /\ UNCHANGED << keywords, bm25, df >>
       /\ UNCHANGED mergeVars
       /\ UNCHANGED stageVars

\* calculate_bm25_score(text, keywords)
CalculateBm25Score ==
  \E text \in ArticleTexts :
    /\ Idle
    /\ call' = [ NoCall EXCEPT !.op = "calculate_bm25_score", !.text = text ]
    /\ ret' = ReturnFloat(calculate_bm25_score(text, keywords))
    /\ query_tokens' = << >>
    /\ UNCHANGED << keywords, bm25, df >>
    /\ UNCHANGED mergeVars
    /\ UNCHANGED stageVars

\* the caller drops the outcome of the call in hand
DropResult ==
  /\ ~Idle
  /\ call' = NoCall
  /\ ret' = NoRet
  /\ query_tokens' = << >>
  /\ UNCHANGED << keywords, bm25, df >>
  /\ UNCHANGED mergeVars
  /\ UNCHANGED stageVars

Next ==
  \/ Fit
  \/ Score
  \/ ClassifyDataframe
  \/ ClassifyWithKeywords
  \/ GetTopDocuments
  \/ CalculateBm25Score
  \/ DropResult

Spec == Init /\ [][Next]_vars

(***************************************************************************)
(* Per-language classification: the same classifier instance and caller's  *)
(* frame, the frame now with a language column (or without one), and       *)
(* classify_by_language next to the instance's own operations.             *)
(***************************************************************************)
MaxLangDocs == 3

En == << "e", "n" >>

De == << "d", "e" >>

\* the language codes of a row: 'en', 'de' or missing
Langs == { En, De, None }

\* '', 'A b'
LangTexts == { << >>, << "A", " ", "b" >> }

LangRows == SeqsUpTo([ lang : Langs, text : LangTexts ], MaxLangDocs)

\* the caller's dataframe: uri, lang and text columns, default index
MakeLangFrame(rows, with_lang) ==
  [ columns |-> IF with_lang THEN << "uri", "lang", "text" >> ELSE << "uri", "text" >>,
    index   |-> [ i \in DOMAIN rows |-> i - 1 ],
    obj     |-> [ c \in (IF with_lang THEN { "uri", "lang", "text" } ELSE { "uri", "text" }) |->
                  IF c = "text" THEN [ i \in DOMAIN rows |-> rows[i].text ]
                  ELSE IF c = "lang" THEN [ i \in DOMAIN rows |-> rows[i].lang ]
                  ELSE [ i \in DOMAIN rows |-> << "u", DigitChars[i] >> ] ],
    f64     |-> NoColumns,
    bool    |-> NoColumns ]

LangFrames ==
  { MakeLangFrame(rows, TRUE) : rows \in LangRows }
  \cup { MakeLangFrame(rows, FALSE) : rows \in { r \in LangRows : \A i \in DOMAIN r : r[i].lang = En } }

\* the keywords file: not there, not JSON, {"en": ["a"]},
\* {"en": ["a"], "de": []}, {"en": ["B A"], "de": ["b"]}
KeywordFiles ==
  { AbsentFile, MalformedFile,
    JsonFile([ l \in { En } |-> << << "a" >> >> ]),
    JsonFile([ l \in { En, De } |-> IF l = En THEN << << "a" >> >> ELSE << >> ]),
    JsonFile([ l \in { En, De } |->
               IF l = En THEN << << "B", " ", "A" >> >> ELSE << << "b" >> >> ]) }

\* BM25KeywordClassifier(['a']) and the frame read from the dataset
InitLang ==
  /\ keywords = << << "a" >> >>
  /\ bm25 = NotFitted
  /\ df \in LangFrames
  /\ call = NoCall
  /\ ret = NoRet
  /\ query_tokens = << >>
  /\ NoMerge
  /\ NoStage

\* classify_by_language(df, text_field, threshold, keywords_file=...)
ClassifyByLanguage ==
  \E text_field \in TextFields, threshold \in Thresholds, keywords_file \in KeywordFiles :
    \E r \in { classify_by_language(df, text_field, threshold, "lang", keywords_file,
                                     "bm25_score", "bm25_classification") } :
       /\ Idle
       /\ call' = [ NoCall EXCEPT !.op = "classify_by_language",
                                  !.text_field = text_field,
                                  !.threshold = threshold,
                                  !.lang_column = "lang",
                                  !.keywords_file = keywords_file,
                                  !.score_column = "bm25_score",
                                  !.classification_column = "bm25_classification",
                                  !.frame = df ]
       /\ ret' = IF r.raise = ""
                   THEN [ ReturnFrame(r.frame) EXCEPT !.groups = r.groups ]
                   ELSE [ Raise(r.raise) EXCEPT !.groups = r.groups ]
       /\ query_tokens' = << >>
       /\ UNCHANGED << keywords, bm25, df >>
       /\ UNCHANGED mergeVars
       /\ UNCHANGED stageVars

NextLang ==
  \/ Fit
  \/ ClassifyDataframe
  \/ ClassifyByLanguage
  \/ DropResult

SpecLang == InitLang /\ [][NextLang]_vars

(***************************************************************************)
(* Properties.                                                             *)
(***************************************************************************)
Classified ==
  /\ call.op \in { "classify_dataframe", "classify_with_keywords" }
  /\ ret.kind = "frame"

\* the scores and the labels a classification wrote
ScoresOf(d) == d.f64[call.score_column]

LabelsOf(d) == d.bool[call.classification_column]

\* the text column the classification read
TextsOf(d) == d.obj[call.text_field]

\* C1: the label classify_dataframe / classify_with_keywords writes for a
\* row is TRUE exactly when the score written for that row is at least the
\* threshold; a score equal to the threshold is labelled TRUE.
C1_LabelIsScoreAtLeastThreshold ==
  Classified =>
    /\ Len(LabelsOf(ret.frame)) = Len(ScoresOf(ret.frame))
    /\ \A i \in DOMAIN ScoresOf(ret.frame) :
         LabelsOf(ret.frame)[i] = (ScoresOf(ret.frame)[i] >= call.threshold)

C1_Witness ==
  /\ Classified
  /\ \E i \in DOMAIN ScoresOf(ret.frame) :
       ScoresOf(ret.frame)[i] = call.threshold /\ LabelsOf(ret.frame)[i]
  /\ \E i \in DOMAIN ScoresOf(ret.frame) :
       ScoresOf(ret.frame)[i] < call.threshold /\ ~LabelsOf(ret.frame)[i]

\* C2: scenario 1: classify_with_keywords on ['climate change is real',
\* 'sports news today'] with keywords ['climate change', 'global warming']
\* and threshold 1.0 labels the first document TRUE and the second FALSE.
C2_Scenario1 ==
  ( /\ call.op = "classify_with_keywords"
    /\ call.frame = MakeFrame(Scenario1Corpus)
    /\ keywords = Scenario1Keywords
    /\ call.threshold = Float(1) )
  => /\ ret.kind = "frame"
     /\ ret.frame.bool["bm25_classification"] = << TRUE, FALSE >>

\* C3: score() on an instance that was never fitted raises the not-fitted
\* error and returns no score, whatever the text and the keywords.
C3_ScoreBeforeFitRaises ==
  (call.op = "score" /\ ~bm25.fitted) =>
    /\ ret.kind = "raise"
    /\ ret.exc = "ValueError: BM25 model not fitted. Call fit() first."
    /\ ret.kind # "float"

C3_Witness ==
  /\ call.op = "score"
  /\ ~bm25.fitted
  /\ ret.kind = "raise"
  /\ keywords # << >>
  /\ \E k \in DOMAIN keywords :
       \E t \in Range(preprocess_text(keywords[k])) :
         t \in Range(preprocess_text(call.text))

\* C4: with keywords that yield no token and a corpus of at least one
\* document, classification returns and every score is 0.0.
C4_NoQueryTokenScoresZero ==
  ( /\ call.op \in { "classify_dataframe", "classify_with_keywords" }
    /\ HasColumn(call.frame, call.text_field)
    /\ NRows(call.frame) > 0
    /\ QueryTokens(keywords) = << >> )
  => /\ ret.kind = "frame"
     /\ \A i \in DOMAIN ScoresOf(ret.frame) : ScoresOf(ret.frame)[i] = 0

\* C5: a document whose text is empty or missing scores 0.0, whatever the
\* keywords and the other documents, in classify_dataframe and in
\* calculate_bm25_score.
C5_EmptyTextScoresZero ==
  /\ ( /\ call.op \in { "classify_dataframe", "classify_with_keywords" }
       /\ HasColumn(call.frame, call.text_field) )
     => \A i \in DOMAIN TextsOf(call.frame) :
          TextsOf(call.frame)[i] \in { None, << >> }
            => (ret.kind = "frame" /\ ScoresOf(ret.frame)[i] = 0)
  /\ ( /\ call.op = "calculate_bm25_score"
       /\ call.text \in { None, << >> } )
     => (ret.kind = "float" /\ ret.value = 0)

\* the tokens of all keywords, in keyword order, repeats included
KeywordTokens == Flatten([ k \in DOMAIN keywords |-> preprocess_text(keywords[k]) ])

FirstIndex(s, x) == CHOOSE i \in DOMAIN s : s[i] = x /\ \A j \in 1..(i - 1) : s[j] # x

\* C6: the query of batch scoring holds every token of every keyword
\* exactly once, in the order of first occurrence; the tokens are lowercase
\* and free of whitespace; a token that several keywords share adds to a
\* document's score once.
C6_QueryTokensDeduplicated ==
  Classified =>
    /\ \A k \in DOMAIN keywords :
         \A t \in Range(preprocess_text(keywords[k])) : Count(query_tokens, t) = 1
    /\ Range(query_tokens) = Range(KeywordTokens)
    /\ \A i, j \in DOMAIN query_tokens :
         i < j => FirstIndex(KeywordTokens, query_tokens[i])
                    < FirstIndex(KeywordTokens, query_tokens[j])
    /\ \A i \in DOMAIN query_tokens :
         /\ query_tokens[i] # << >>
         /\ \A c \in Range(query_tokens[i]) : ~IsSpace(c) /\ LowerChar(c) = c
    /\ call.op = "classify_dataframe" =>
         \A i \in DOMAIN ScoresOf(ret.frame) :
           ScoresOf(ret.frame)[i]
             = SumOver(Range(KeywordTokens),
                       [ w \in Range(KeywordTokens) |-> TermScore(bm25, w, i) ])

C6_Witness ==
  /\ Classified
  /\ call.op = "classify_dataframe"
  /\ Len(query_tokens) >= 2
  /\ \E t \in Range(KeywordTokens) :
       /\ Count(KeywordTokens, t) > 1
       /\ \E i \in DOMAIN ScoresOf(ret.frame) : TermScore(bm25, t, i) # 0
  /\ \E k \in DOMAIN keywords : StrLower(keywords[k]) # keywords[k]

\* the occurrences of token q in document i of the fitted corpus
TermFrequency(bm, q, i) ==
  IF q \in DOMAIN bm.doc_freqs[i] THEN bm.doc_freqs[i][q] ELSE 0

\* C7: of two documents of equal length in one fitted corpus, the one with
\* at least as many occurrences of every query term never scores lower.
C7_MonotoneInTermFrequency ==
  (Classified /\ call.op = "classify_dataframe") =>
    \A i, j \in DOMAIN ScoresOf(ret.frame) :
      ( /\ bm25.doc_len[i] = bm25.doc_len[j]
        /\ \A q \in Range(query_tokens) :
             TermFrequency(bm25, q, i) >= TermFrequency(bm25, q, j) )
      => ScoresOf(ret.frame)[i] >= ScoresOf(ret.frame)[j]

\* C8: every score classify_dataframe writes is non-negative.
C8_ScoresNonNegative ==
  Classified =>
    \A i \in DOMAIN ScoresOf(ret.frame) : ScoresOf(ret.frame)[i] >= 0

Min(a, b) == IF a <= b THEN a ELSE b

SameColumn(a, b, c) ==
  /\ (c \in DOMAIN a.obj) = (c \in DOMAIN b.obj)
  /\ (c \in DOMAIN a.f64) = (c \in DOMAIN b.f64)
  /\ (c \in DOMAIN a.bool) = (c \in DOMAIN b.bool)
  /\ c \in DOMAIN a.obj => a.obj[c] = b.obj[c]
  /\ c \in DOMAIN a.f64 => a.f64[c] = b.f64[c]
  /\ c \in DOMAIN a.bool => a.bool[c] = b.bool[c]

\* C10 as stated: the returned frame is the input with exactly the score
\* and the label column added, rows and original fields unchanged, and the
\* caller's frame is not modified.
C10_TwoColumnsAdded ==
  Classified =>
    /\ ret.frame.columns
         = call.frame.columns \o << call.score_column, call.classification_column >>
    /\ ret.frame.index = call.frame.index
    /\ \A c \in Range(call.frame.columns) : SameColumn(ret.frame, call.frame, c)
    /\ df = call.frame

NewColumns ==
  SelectSeq(<< call.score_column, call.classification_column >>,
            LAMBDA c : ~HasColumn(call.frame, c))

\* C10 amended: rows, row order and every column not named as score or
\* label column are unchanged and the caller's frame is not modified; the
\* score column holds floats and the label column booleans; exactly two
\* columns are added when neither name is a column of the input, while a
\* name that is one has that column replaced in place.
C10_ColumnsAddedOrReplaced ==
  Classified =>
    /\ ret.frame.columns = call.frame.columns \o NewColumns
    /\ ret.frame.index = call.frame.index
    /\ \A c \in Range(call.frame.columns)
              \ { call.score_column, call.classification_column } :
         SameColumn(ret.frame, call.frame, c)
    /\ call.score_column \in DOMAIN ret.frame.f64
    /\ call.classification_column \in DOMAIN ret.frame.bool
    /\ df = call.frame
    /\ ( /\ ~HasColumn(call.frame, call.score_column)
         /\ ~HasColumn(call.frame, call.classification_column) )
       => /\ Len(ret.frame.columns) = Len(call.frame.columns) + 2
          /\ \A c \in Range(call.frame.columns) : SameColumn(ret.frame, call.frame, c)

C10_Witness ==
  /\ Classified
  /\ call.op = "classify_dataframe"
  /\ ~HasColumn(call.frame, call.score_column)
  /\ NRows(ret.frame) >= 2
  /\ None \in Range(call.frame.obj["text"])
  /\ ret.frame.obj["text"] = call.frame.obj["text"]
  /\ Len(ret.frame.columns) = 4

(***************************************************************************)
(* Missing columns and languages without keywords.                         *)
(***************************************************************************)
\* C11: a call of classify_dataframe whose text_field is not a column of
\* the frame raises the ValueError of the missing text field, returns no
\* frame and leaves self.bm25 as it was before the call; a call of
\* classify_by_language on a frame without the language column raises the
\* ValueError of the missing language column before any language group is
\* classified
C11_MissingColumnRaises ==
  [][ /\ (Idle /\ call'.op = "classify_dataframe"
               /\ ~HasColumn(df, call'.text_field))
          => /\ ret'.kind = "raise"
             /\ ret'.exc = "ValueError: Text field not found in dataframe"
             /\ ret'.frame = EmptyFrame
             /\ bm25' = bm25
      /\ (Idle /\ call'.op = "classify_by_language"
               /\ ~HasColumn(df, call'.lang_column))
          => /\ ret'.kind = "raise"
             /\ ret'.exc = "ValueError: Language column not found in dataframe"
             /\ ret'.frame = EmptyFrame
             /\ ret'.groups = << >> ]_vars

\* a fitted classifier has raised on a frame without the text field
C11_Witness ==
  /\ call.op = "classify_dataframe"
  /\ ~HasColumn(call.frame, call.text_field)
  /\ ret.kind = "raise"
  /\ bm25.fitted
  /\ NRows(call.frame) > 0

\* the position of the row of frame d with index label x
RowOf(d, x) == CHOOSE p \in DOMAIN d.index : d.index[p] = x

\* the languages of the frame of the call in hand, and its column of them
CallLangs == Unique(call.frame.obj[call.lang_column])

\* the call in hand is classify_by_language on a frame with the language
\* column
ByLanguage ==
  /\ call.op = "classify_by_language"
  /\ HasColumn(call.frame, call.lang_column)

\* what the loop body gives for language l on its own
GroupOf(l) ==
  ClassifyGroup(call.frame, l, call.text_field, call.threshold, call.lang_column,
                call.keywords_file, call.score_column, call.classification_column)

\* C12: in classify_by_language a language without loadable keywords is
\* never what makes the call fail (a raise is the raise of
\* classify_with_keywords on the group of a language that has keywords, or
\* of pd.concat on a frame without rows); in the frame returned every row of
\* such a language has score 0.0 and label False, and every row of a
\* language with keywords has the score and label that
\* classify_with_keywords gives it within its own language group with its
\* own keywords
C12_NoKeywordsNotFatal ==
  ByLanguage =>
    /\ ret.kind \in { "frame", "raise" }
    /\ ret.kind = "raise" =>
         \/ NRows(call.frame) = 0 /\ ret.exc = "ValueError: No objects to concatenate"
         \/ \E j \in DOMAIN CallLangs :
              /\ load_keywords(CallLangs[j], call.keywords_file) # << >>
              /\ \E g \in { GroupOf(CallLangs[j]) } : g.raise = ret.exc
    /\ ret.kind = "frame" =>
         \A j \in DOMAIN CallLangs :
           \E g \in { GroupOf(CallLangs[j]) } :
             \A i \in DOMAIN ret.frame.index :
               ret.frame.obj[call.lang_column][i] = CallLangs[j] =>
                 IF load_keywords(CallLangs[j], call.keywords_file) = << >>
                   THEN /\ ScoresOf(ret.frame)[i] = 0
                        /\ LabelsOf(ret.frame)[i] = FALSE
                   ELSE /\ g.raise = ""
                        /\ ScoresOf(ret.frame)[i]
                             = ScoresOf(g.frame)[RowOf(g.frame, ret.frame.index[i])]
                        /\ LabelsOf(ret.frame)[i]
                             = LabelsOf(g.frame)[RowOf(g.frame, ret.frame.index[i])]

\* a frame came back in which a row of a language missing from the keywords
\* file is unclassified and a row of another language is labelled relevant
C12_Witness ==
  /\ ByLanguage
  /\ ret.kind = "frame"
  /\ call.keywords_file.kind = "json"
  /\ \E i, k \in DOMAIN ret.frame.index :
       /\ ret.frame.obj[call.lang_column][i] = De
       /\ De \notin DOMAIN call.keywords_file.json
       /\ ScoresOf(ret.frame)[i] = 0
       /\ LabelsOf(ret.frame)[i] = FALSE
       /\ ret.frame.obj[call.lang_column][k] = En
       /\ load_keywords(En, call.keywords_file) # << >>
       /\ LabelsOf(ret.frame)[k] = TRUE

(***************************************************************************)
(* Merging the classifications into the articles: the articles file as the *)
(* keyword filter wrote it, the classifications file as the classifier     *)
(* appended to it, the merge run any number of times, and the reader of    *)
(* the merged file.                                                        *)
(***************************************************************************)
MaxArticles == 2
MaxVerdicts == 3
MaxRuns == 2

\* an article kept by the keyword filter: data['collection_method'] =
\* 'keywords'
Article(uri) == [ uri |-> uri, collection_method |-> "keywords" ]

\* the lines of the articles file: article A as the keyword filter wrote
\* it, article B from a file the filter has not marked, an article without
\* uri, and a line that is not JSON
ArticleLinesOf ==
  { JsonLine(Article("A")), JsonLine([ uri |-> "B" ]),
    JsonLine([ collection_method |-> "keywords" ]), InvalidLine }

\* the lines of the classifications file: verdicts of A without error, a
\* verdict of B with one, records without an identifier or with an empty
\* one, a line that is not JSON and one that is no object
VerdictTrue(uri) ==
  [ uri |-> uri, is_climate_or_energy |-> "true", justification |-> "j" ]

VerdictFalse(uri) ==
  [ uri |-> uri, is_climate_or_energy |-> "false", justification |-> Null ]

VerdictError(uri) ==
  [ uri |-> uri, is_climate_or_energy |-> "true", justification |-> Null,
    error |-> "timeout" ]

VerdictLinesOf ==
  { JsonLine(VerdictTrue("A")), JsonLine(VerdictFalse("A")),
    JsonLine(VerdictError("B")),
    JsonLine([ is_climate_or_energy |-> "true", justification |-> "j" ]),
    JsonLine(VerdictFalse("")),
    InvalidLine, NonObjectLine }

\* the files before merge_classifications has ever run
InitMerge ==
  /\ articles_file \in SeqsUpTo(ArticleLinesOf, MaxArticles)
  /\ classifications_file \in SeqsUpTo(VerdictLinesOf, MaxVerdicts)
  /\ output_file = NoFile
  /\ summary = NoSummary
  /\ runs = 0
  /\ articles = << >>
  /\ keywords = << >>
  /\ bm25 = NotFitted
  /\ df = EmptyFrame
  /\ call = NoCall
  /\ ret = NoRet
  /\ query_tokens = << >>
  /\ NoStage

\* python merge_classifications.py
MergeClassifications ==
  \E r \in { merge_classifications(articles_file, classifications_file,
                                   output_file, "uri") } :
    /\ runs < MaxRuns
    /\ output_file' = r.output_file
    /\ summary' = r.summary
    /\ runs' = runs + 1
    /\ UNCHANGED << articles_file, classifications_file, articles >>
    /\ UNCHANGED scorerVars
    /\ UNCHANGED stageVars

\* make_climate_articles_json.py reads the merged file
AppendClassified ==
  /\ output_file.exists
  /\ articles' = AppendedArticles(output_file.lines)
  /\ UNCHANGED << articles_file, classifications_file, output_file, summary, runs >>
  /\ UNCHANGED scorerVars
  /\ UNCHANGED stageVars

NextMerge ==
  \/ MergeClassifications
  \/ AppendClassified

SpecMerge == InitMerge /\ [][NextMerge]_vars

(***************************************************************************)
(* Properties of the merge.                                                *)
(***************************************************************************)
\* the last run of the merge went through: the output file is its output
Merged == summary.done /\ output_file.exists

\* the records written to the output file
Written == [ k \in DOMAIN output_file.lines |-> output_file.lines[k].value ]

\* a line of the classifications file that is a record with an identifier
WellFormed(line) == line.valid /\ line.object /\ Truthy(Get(line.value, "uri"))

\* the lines of the classifications file that are verdicts on document u
VerdictsOn(u) ==
  { i \in DOMAIN classifications_file :
      /\ WellFormed(classifications_file[i])
      /\ Get(classifications_file[i].value, "uri") = u }

\* the verdict read last on document u
LastVerdictOn(u) ==
  classifications_file[CHOOSE i \in VerdictsOn(u) : \A j \in VerdictsOn(u) : j <= i].value

\* a verdict that carries no error
NoError(verdict) == Get(verdict, "error") = Null

\* the articles file has an article with identifier u
HasArticle(u) ==
  \E i \in DOMAIN articles_file :
    articles_file[i].valid /\ Get(articles_file[i].value, "uri") = u

\* C13 as stated: every merged record of a document that has a verdict
\* without error carries that verdict's label
C13_LlmVerdictIsLabel ==
  Merged =>
    \A k \in DOMAIN Written :
      \A i \in VerdictsOn(Get(Written[k], "uri")) :
        NoError(classifications_file[i].value) =>
          Written[k].classification.is_climate_or_energy
            = Get(classifications_file[i].value, "is_climate_or_energy")

\* C13 amended: every merged record of a document whose verdict read last
\* carries no error has the label of that verdict, whatever the keyword
\* filter said of the article and whatever earlier verdicts said
C13_LastLlmVerdictIsLabel ==
  Merged =>
    \A k \in DOMAIN Written :
      (/\ VerdictsOn(Get(Written[k], "uri")) # {}
       /\ NoError(LastVerdictOn(Get(Written[k], "uri"))))
        => Written[k].classification.is_climate_or_energy
             = Get(LastVerdictOn(Get(Written[k], "uri")), "is_climate_or_energy")

\* an article the keyword filter kept was merged with a verdict without
\* error that says it is not about climate, read after one that says it is
C13_Witness ==
  /\ Merged
  /\ \E k \in DOMAIN Written :
       /\ Get(Written[k], "collection_method") = "keywords"
       /\ Cardinality(VerdictsOn(Get(Written[k], "uri"))) >= 2
       /\ NoError(LastVerdictOn(Get(Written[k], "uri")))
       /\ Written[k].classification.is_climate_or_energy = "false"
       /\ \E i \in VerdictsOn(Get(Written[k], "uri")) :
            Get(classifications_file[i].value, "is_climate_or_energy") = "true"

\* C14: whenever the keyword filter kept an article (lexical verdict True)
\* and its verdict without error says False, the merged record records the
\* disagreement: it has a conflict field that is true
C14_ConflictRecorded ==
  Merged =>
    \A k \in DOMAIN Written :
      (/\ Get(Written[k], "collection_method") = "keywords"
       /\ NoError(Written[k].classification)
       /\ Written[k].classification.is_climate_or_energy = "false")
        => Get(Written[k], "conflict") = "true"

\* the document of record a has a verdict of the keyword filter
HasLexicalVerdict(a) == Get(a, "collection_method") # Null

\* C15: a document that no source has a verdict on (the keyword filter has
\* not marked it and the classifications file has no record of it) has no
\* record in the merged output
C15_GapIsAbsent ==
  Merged =>
    \A k \in DOMAIN Written :
      ~ (/\ Truthy(Get(Written[k], "uri"))
         /\ ~HasLexicalVerdict(Written[k])
         /\ VerdictsOn(Get(Written[k], "uri")) = {})

\* every verdict on document u carries an error, and there is one
OnlyErroredVerdicts(u) ==
  /\ VerdictsOn(u) # {}
  /\ \A i \in VerdictsOn(u) : ~NoError(classifications_file[i].value)

\* C16: a document whose only verdict is an LLM verdict with an error, and
\* which has no lexical verdict, has no record in the merged output, and the
\* reader of the merged output never takes it for a climate article
C16_ErroredVerdictExcluded ==
  /\ Merged =>
       \A k \in DOMAIN Written :
         ~ (/\ ~HasLexicalVerdict(Written[k])
            /\ OnlyErroredVerdicts(Get(Written[k], "uri")))
  /\ \A k \in DOMAIN articles :
       ~ (/\ ~HasLexicalVerdict(articles[k])
          /\ OnlyErroredVerdicts(Get(articles[k], "uri")))

\* C17: every identifier of a well-formed classification record has a
\* record in the merged output, with or without an article of that
\* identifier in the articles file
C17_UnionOfIds ==
  Merged =>
    \A i \in DOMAIN classifications_file :
      WellFormed(classifications_file[i]) =>
        \E k \in DOMAIN Written :
          Get(Written[k], "uri") = Get(classifications_file[i].value, "uri")

\* some identifier has more than one well-formed classification record
DuplicateIds ==
  \E i \in DOMAIN classifications_file :
    /\ WellFormed(classifications_file[i])
    /\ Cardinality(VerdictsOn(Get(classifications_file[i].value, "uri"))) >= 2

\* C18: of two classification records with the same identifier the one
\* read last is the merged classification, and what the merge prints
\* reports the duplicate
C18_DuplicatesLastWinsAndLogged ==
  (Merged /\ DuplicateIds) =>
    /\ \A k \in DOMAIN Written :
         VerdictsOn(Get(Written[k], "uri")) # {} =>
           Written[k].classification = Kept(LastVerdictOn(Get(Written[k], "uri")))
    /\ "duplicates" \in DOMAIN summary

\* a line of the classifications file that is not JSON, or a record whose
\* identifier is missing or empty
Malformed(line) == ~line.valid \/ (line.object /\ ~Truthy(Get(line.value, "uri")))

\* C19: a malformed line of the classifications file does not end the
\* merge, every article with a well-formed record before or after it gets
\* the record read last for it, and what the merge prints reports the
\* number of lines skipped
C19_MalformedSkippedAndCounted ==
  (/\ runs > 0
   /\ \A i \in DOMAIN classifications_file :
        Malformed(classifications_file[i]) \/ WellFormed(classifications_file[i])
   /\ \E i \in DOMAIN classifications_file : Malformed(classifications_file[i])) =>
    /\ Merged
    /\ \A k \in DOMAIN Written :
         VerdictsOn(Get(Written[k], "uri")) # {} =>
           Written[k].classification = Kept(LastVerdictOn(Get(Written[k], "uri")))
    /\ "skipped" \in DOMAIN summary

\* C20: a run of the merge after an earlier run, on the same articles file
\* and classifications file, leaves the output file with the content the
\* earlier run left, and prints the same counts
C20_MergeIdempotent ==
  [][ (runs >= 1 /\ runs' = runs + 1) =>
        /\ output_file' = output_file
        /\ summary' = summary ]_vars

\* the merge has run twice and its output has a merged article in it
C20_Witness ==
  /\ runs = 2
  /\ Merged
  /\ \E k \in DOMAIN Written :
       /\ Truthy(Get(Written[k], "uri"))
       /\ NoError(Written[k].classification)

\* C21: every record of the merged output has a label that is true or
\* false, never null or missing
C21_LabelAlwaysBoolean ==
  Merged =>
    \A k \in DOMAIN Written :
      Get(Get(Written[k], "classification"), "is_climate_or_energy")
        \in { "true", "false" }

\* the lines of the articles file that json.loads parses, in file order
Parseable == Where([ i \in DOMAIN articles_file |-> articles_file[i].valid ])

Occurrences(doc, token) == Cardinality({ i \in DOMAIN doc : doc[i] = token })

\* the sum of f over 1..n
RECURSIVE SumTo(_, _)
SumTo(f, n) == IF n = 0 THEN 0 ELSE f[n] + SumTo(f, n - 1)

C27_RowsKept ==
  (ByLanguage /\ ret.kind = "frame") =>
    /\ ret.frame.index = call.frame.index
    /\ \A c \in DOMAIN call.frame.obj : ret.frame.obj[c] = call.frame.obj[c]
    /\ DOMAIN ScoresOf(ret.frame) = DOMAIN call.frame.index
    /\ DOMAIN LabelsOf(ret.frame) = DOMAIN call.frame.index
    /\ \A i \in DOMAIN call.frame.index :
         /\ LabelsOf(ret.frame)[i] \in BOOLEAN
         /\ call.frame.obj[call.lang_column][i] = None =>
              /\ ScoresOf(ret.frame)[i] = 0
              /\ LabelsOf(ret.frame)[i] = FALSE

\* a frame of three rows came back: a row of a language with keywords, a
\* row with a missing language before a row of a language without keywords
C27_Witness ==
  /\ ByLanguage
  /\ ret.kind = "frame"
  /\ NRows(ret.frame) = 3
  /\ call.frame.obj[call.lang_column][1] = En
  /\ call.frame.obj[call.lang_column][2] = None
  /\ call.frame.obj[call.lang_column][3] = De
  /\ load_keywords(En, call.keywords_file) # << >>
  /\ load_keywords(De, call.keywords_file) = << >>
  /\ ScoresOf(ret.frame)[1] # 0

\* the rows of the frame of the call in hand, as MakeLangFrame takes them
CallRows ==
  [ i \in DOMAIN call.frame.index |->
      [ lang |-> call.frame.obj[call.lang_column][i],
        text |-> call.frame.obj["text"][i] ] ]

\* classify_by_language as in the call in hand, on frame d with keywords
\* file f
Again(d, f) ==
  classify_by_language(d, call.text_field, call.threshold, call.lang_column, f,
                       call.score_column, call.classification_column)

\* row i of the frame returned has the score and label it has in outcome r
SameVerdict(r, i) ==
  /\ r.raise = ""
  /\ r.frame.f64[call.score_column][i] = ScoresOf(ret.frame)[i]
  /\ r.frame.bool[call.classification_column][i] = LabelsOf(ret.frame)[i]

\* C28: the score and label classify_by_language gives a document are the
\* same when a document of another language is added to the frame and when
\* the keywords file is replaced by one with the same keywords for the
\* document's language
C28_OtherLanguagesWithoutInfluence ==
  (ByLanguage /\ ret.kind = "frame" /\ HasColumn(call.frame, "text")) =>
    /\ \A row \in [ lang : Langs, text : LangTexts ] :
         \E r \in { Again(MakeLangFrame(Append(CallRows, row), TRUE),
                          call.keywords_file) } :
           \A i \in DOMAIN call.frame.index :
             call.frame.obj[call.lang_column][i] # row.lang => SameVerdict(r, i)
    /\ \A f \in KeywordFiles :
         \E r \in { Again(call.frame, f) } :
           \A i \in DOMAIN call.frame.index :
             LET l == call.frame.obj[call.lang_column][i]
             IN (l # None /\ load_keywords(l, f) = load_keywords(l, call.keywords_file))
                  => SameVerdict(r, i)

\* whenever the call on the changed frame or keywords file returns as well,
\* the document has the same score and label in both results
IsolatedWhenReturning ==
  (ByLanguage /\ ret.kind = "frame" /\ HasColumn(call.frame, "text")) =>
    /\ \A row \in [ lang : Langs, text : LangTexts ] :
         \E r \in { Again(MakeLangFrame(Append(CallRows, row), TRUE),
                          call.keywords_file) } :
           \A i \in DOMAIN call.frame.index :
             call.frame.obj[call.lang_column][i] # row.lang => (r.raise = "" => SameVerdict(r, i))
    /\ \A f \in KeywordFiles :
         \E r \in { Again(call.frame, f) } :
           \A i \in DOMAIN call.frame.index :
             LET l == call.frame.obj[call.lang_column][i]
             IN (l # None /\ load_keywords(l, f) = load_keywords(l, call.keywords_file))
                  => (r.raise = "" => SameVerdict(r, i))

(***************************************************************************)
(* src/classify_climate.py: SimpleClimateClassifier.process_articles and   *)
(* classify_one.  The tasks run on one asyncio event loop: a task runs     *)
(* without interruption from one await to the next, so each action below   *)
(* is the code between two awaits.  The API answers a call with a parsed   *)
(* classification, a rate-limit / timeout / connection error, or another   *)
(* exception.                                                              *)
(***************************************************************************)
MaxConcurrent == 2

MaxRetries == 2

\* text_fields=["title", "body"]
DefaultTextFields == << "title", "body" >>

\* f"unknown_{line_num}"
UnknownIds == << "unknown_1", "unknown_2", "unknown_3", "unknown_4", "unknown_5" >>

\* [str(record.get(field, "")) for field in text_fields if record.get(field)],
\* the parts that " ".join puts together
TextParts(record, text_fields) ==
  LET present == Where([ i \in DOMAIN text_fields |->
                           Truthy(Get(record, text_fields[i])) ])
  IN [ j \in DOMAIN present |-> record[text_fields[present[j]]] ]

\* text.strip() of the joined parts is empty
Blank(parts) == \A j \in DOMAIN parts : parts[j] = " "

\* the first loop of process_articles: the articles list
LoadArticles(lines, text_fields, id_field) ==
  LET kept == Where([ i \in DOMAIN lines |->
                        /\ lines[i].valid
                        /\ ~Blank(TextParts(lines[i].value, text_fields)) ])
  IN [ j \in DOMAIN kept |->
         [ id   |-> IF id_field \in DOMAIN lines[kept[j]].value
                      THEN lines[kept[j]].value[id_field]
                      ELSE UnknownIds[kept[j]],
           text |-> TextParts(lines[kept[j]].value, text_fields) ] ]

\* the second loop: processed_ids
ProcessedIds(lines, id_field) ==
  { Get(lines[i].value, id_field) : i \in { k \in DOMAIN lines : lines[k].valid } }

\* mutant of ToProcess: resume=False, nothing is skipped
ToProcessAll(article_list, processed_ids) == article_list

\* [a for a in articles if a["id"] not in processed_ids]
ToProcess(article_list, processed_ids) ==
  LET left == Where([ i \in DOMAIN article_list |->
                        article_list[i].id \notin processed_ids ])
  IN [ j \in DOMAIN left |-> article_list[left[j]] ]

\* what completion.choices[0].message.parsed can be: a classification, or
\* None when the model gave no parsable answer
NoParsed == [ is_climate_or_energy |-> Null, justification |-> Null ]

Parsed ==
  { [ is_climate_or_energy |-> "true", justification |-> "j" ], NoParsed }

\* the result of classify_and_save: the try branch, and the except branch
\* with str(e)
ResultRecord(id_field, id, parsed) ==
  (id_field :> id) @@ [ is_climate_or_energy |-> parsed.is_climate_or_energy,
                        justification        |-> parsed.justification ]

ErrorRecord(id_field, id, e) ==
  (id_field :> id) @@ [ is_climate_or_energy |-> "false",
                        justification        |-> Null,
                        error                |-> e ]

\* a task of asyncio.gather before its first step; calls counts the API
\* calls of its classify_one, failures the rate-limit, timeout and
\* connection errors among their outcomes
NewTask(article) ==
  [ id |-> article.id, text |-> article.text, pc |-> "waiting", attempt |-> 0,
    calls |-> 0, failures |-> 0, outcome |-> "" ]

\* the lines of the input file: article A with a title, an article without
\* uri with a blank title and a body, C with a blank title only, and a line
\* that is not JSON
InputLinesOf ==
  { JsonLine([ uri |-> "A", title |-> "t" ]),
    JsonLine([ title |-> " ", body |-> "b" ]),
    JsonLine([ uri |-> "C", title |-> " ", body |-> "" ]),
    InvalidLine }

\* the output file before the first run: not there, or with the error
\* record of A from an earlier run
OutputFilesOf == { << >>, << JsonLine(ErrorRecord("uri", "A", "Classification error")) >> }

InitClassify ==
  /\ articles_file \in SeqsUpTo(InputLinesOf, MaxArticles)
  /\ classifications_file \in OutputFilesOf
  /\ max_concurrent \in 1..MaxConcurrent
  /\ max_retries \in 1..MaxRetries
  /\ tasks = << >>
  /\ semaphore = 0
  /\ gathering = FALSE
  /\ classified = << >>
  /\ NoCollect
  /\ NoFetch
  /\ output_file = NoFile
  /\ summary = NoSummary
  /\ runs = 0
  /\ articles = << >>
  /\ keywords = << >>
  /\ bm25 = NotFitted
  /\ df = EmptyFrame
  /\ call = NoCall
  /\ ret = NoRet
  /\ query_tokens = << >>

\* what no step of process_articles changes
ClassifyFrame ==
  /\ UNCHANGED << articles_file, output_file, summary, articles >>
  /\ UNCHANGED << max_concurrent, max_retries >>
  /\ UNCHANGED << scorerVars, collectVars, fetchVars >>

\* process_articles(input_file, output_file, resume=True) up to
\* asyncio.gather, or to its return when nothing is left to process
ProcessArticles ==
  \E to_process \in { ToProcess(LoadArticles(articles_file, DefaultTextFields, "uri"),
                                ProcessedIds(classifications_file, "uri")) } :
    /\ ~gathering
    /\ runs < MaxRuns
    /\ IF to_process = << >>
         THEN /\ runs' = runs + 1
              /\ UNCHANGED << tasks, semaphore, gathering >>
         ELSE /\ tasks' = [ t \in DOMAIN to_process |-> NewTask(to_process[t]) ]
              /\ semaphore' = max_concurrent
              /\ gathering' = TRUE
              /\ UNCHANGED runs
    /\ UNCHANGED << classifications_file, classified >>
    /\ ClassifyFrame

\* mutant of Free: the value of the semaphore is not looked at
FreeAlways(value) == TRUE

\* asyncio.Semaphore: acquire goes through while the value is positive
Free(value) == value > 0

\* async with semaphore, then classify_one up to its first API call
Acquire(t) ==
  /\ gathering
  /\ tasks[t].pc = "waiting"
  /\ Free(semaphore)
  /\ semaphore' = semaphore - 1
  /\ tasks' = [ tasks EXCEPT ![t].pc = "calling", ![t].attempt = 0, ![t].calls = 1 ]
  /\ classified' = IF tasks[t].id \in DOMAIN classified
                     THEN [ classified EXCEPT ![tasks[t].id] = @ + 1 ]
                     ELSE classified @@ (tasks[t].id :> 1)
  /\ UNCHANGED << classifications_file, gathering, runs >>
  /\ ClassifyFrame

\* the rest of classify_and_save once classify_one has returned or raised:
\* the line is written and flushed and the semaphore released; the locals
\* of classify_one are gone
Save(t, outcome, result) ==
  /\ classifications_file' = Append(classifications_file, JsonLine(result))
  /\ semaphore' = semaphore + 1
  /\ tasks' = [ tasks EXCEPT ![t] = [ NewTask(tasks[t]) EXCEPT !.pc = "done",
                                                              !.outcome = outcome ] ]

\* the API call of task t returns: classify_one returns message.parsed; a
\* parsed of None makes classification.is_climate_or_energy raise
\* AttributeError in classify_and_save
ApiReturns(t) ==
  \E parsed \in Parsed :
    /\ gathering
    /\ tasks[t].pc = "calling"
    /\ Save(t, "result",
            IF parsed = NoParsed
              THEN ErrorRecord("uri", tasks[t].id, "AttributeError")
              ELSE ResultRecord("uri", tasks[t].id, parsed))
    /\ UNCHANGED << gathering, runs, classified >>
    /\ ClassifyFrame

\* mutant of AttemptsRemain: one attempt more
AttemptsRemainInclusive(attempt, retries) == attempt < retries

\* if attempt < max_retries - 1
AttemptsRemain(attempt, retries) == attempt < retries - 1

\* the API call of task t raises RateLimitError, APITimeoutError or
\* APIConnectionError: sleep and go on, or RuntimeError after the last attempt
ApiTransient(t) ==
  /\ gathering
  /\ tasks[t].pc = "calling"
  /\ IF AttemptsRemain(tasks[t].attempt, max_retries)
       THEN /\ tasks' = [ tasks EXCEPT ![t].pc = "sleeping",
                                       ![t].failures = @ + 1 ]
            /\ UNCHANGED << classifications_file, semaphore >>
       ELSE Save(t, "RuntimeError: Failed",
                 ErrorRecord("uri", tasks[t].id, "Failed after retries"))
  /\ UNCHANGED << gathering, runs, classified >>
  /\ ClassifyFrame

\* asyncio.sleep(2 ** attempt) is over: the next attempt calls the API
Wake(t) ==
  /\ gathering
  /\ tasks[t].pc = "sleeping"
  /\ tasks' = [ tasks EXCEPT ![t].pc = "calling", ![t].attempt = @ + 1,
                             ![t].calls = @ + 1 ]
  /\ UNCHANGED << classifications_file, semaphore, gathering, runs, classified >>
  /\ ClassifyFrame

\* the API call of task t raises any other exception
ApiOther(t) ==
  /\ gathering
  /\ tasks[t].pc = "calling"
  /\ Save(t, "RuntimeError: Classification error",
          ErrorRecord("uri", tasks[t].id, "Classification error"))
  /\ UNCHANGED << gathering, runs, classified >>
  /\ ClassifyFrame

\* asyncio.gather returns: the output file is closed and the run is over
GatherReturns ==
  /\ gathering
  /\ \A t \in DOMAIN tasks : tasks[t].pc = "done"
  /\ gathering' = FALSE
  /\ tasks' = << >>
  /\ semaphore' = 0
  /\ runs' = runs + 1
  /\ UNCHANGED << classifications_file, classified >>
  /\ ClassifyFrame

NextClassify ==
  \/ ProcessArticles
  \/ \E t \in DOMAIN tasks : Acquire(t)
  \/ \E t \in DOMAIN tasks : ApiReturns(t)
  \/ \E t \in DOMAIN tasks : ApiTransient(t)
  \/ \E t \in DOMAIN tasks : Wake(t)
  \/ \E t \in DOMAIN tasks : ApiOther(t)
  \/ GatherReturns

SpecClassify == InitClassify /\ [][NextClassify]_vars

\* the event loop runs every task that can go on, every API call ends (the
\* calls carry timeout=30.0), and every sleep ends
FairClassify ==
  /\ \A t \in 1..MaxArticles :
       /\ WF_vars(t \in DOMAIN tasks /\ Acquire(t))
       /\ WF_vars(t \in DOMAIN tasks /\ (ApiReturns(t) \/ ApiTransient(t) \/ ApiOther(t)))
       /\ WF_vars(t \in DOMAIN tasks /\ Wake(t))
  /\ WF_vars(GatherReturns)

SpecClassifyFair == SpecClassify /\ FairClassify

(***************************************************************************)
(* Properties of classify_one and process_articles.                        *)
(***************************************************************************)
\* C22: a classify_one call makes at most max_retries API calls; a further
\* call is made only when every call so far ended in a rate-limit, timeout
\* or connection error and fewer than max_retries calls were made, never
\* once the call has ended; a call ends only from an API call in flight:
\* with a result or with 'Classification error' on the first attempt that
\* does not end in such an error, with 'Failed after retries' when the
\* max_retries-th call ends in one; and every call that was started ends
C22_RetryBounded ==
  /\ [](\A t \in DOMAIN tasks :
          /\ tasks[t].calls <= max_retries
          /\ tasks[t].failures <= tasks[t].calls
          /\ (tasks[t].pc = "done") <=> (tasks[t].outcome # ""))
  /\ [][\A t \in DOMAIN tasks \cap DOMAIN tasks' :
          /\ tasks'[t].calls > tasks[t].calls =>
               /\ tasks'[t].calls = tasks[t].calls + 1
               /\ tasks[t].outcome = ""
               /\ tasks[t].failures = tasks[t].calls
               /\ tasks[t].calls < max_retries
          /\ (tasks[t].outcome = "" /\ tasks'[t].outcome # "") =>
               /\ tasks[t].pc = "calling"
               /\ tasks[t].failures = tasks[t].calls - 1
               /\ tasks'[t].outcome \in { "result", "RuntimeError: Failed",
                                          "RuntimeError: Classification error" }
               /\ tasks'[t].outcome = "RuntimeError: Failed"
                    => tasks[t].calls = max_retries]_vars
  /\ \A t \in 1..MaxArticles :
       (t \in DOMAIN tasks /\ tasks[t].pc = "calling")
         ~> (t \in DOMAIN tasks /\ tasks[t].pc = "done")

\* the second attempt of a call is in flight after a first that failed,
\* while another call of the run has failed after max_retries attempts
C22_Witness ==
  /\ max_retries = 2
  /\ \E t, u \in DOMAIN tasks :
       /\ tasks[t].pc = "calling"
       /\ tasks[t].calls = 2
       /\ tasks[t].failures = 1
       /\ tasks[u].outcome = "RuntimeError: Failed"

\* the ids of the articles process_articles loads from the input file
LoadedIds ==
  CHOOSE ids \in { [ j \in DOMAIN article_list |-> article_list[j].id ] :
                     article_list \in { LoadArticles(articles_file, DefaultTextFields,
                                                     "uri") } } : TRUE

\* the records of the output file with this id
RecordsOf(id) ==
  { k \in DOMAIN classifications_file : classifications_file[k].value["uri"] = id }

\* the tasks with this id whose classify_one call is under way
Pending(id) ==
  { t \in DOMAIN tasks : tasks[t].id = id /\ tasks[t].pc \in { "calling", "sleeping" } }

\* C25: when the articles of the input file have distinct ids, no article
\* that has a record in the output file is being classified, none has two
\* records and none is classified twice; a task whose classification failed has a record with label
\* false and an error string; and once a run is over every article with
\* non-blank text has exactly one record and a line without text has none
C25_ExactlyOnceAcrossRuns ==
  \A ids \in { LoadedIds } :
    (\A i, j \in DOMAIN ids : ids[i] = ids[j] => i = j) =>
      /\ \A j \in DOMAIN ids :
           Cardinality(RecordsOf(ids[j])) + Cardinality(Pending(ids[j])) <= 1
      /\ \A id \in DOMAIN classified : classified[id] = 1
      /\ \A t \in DOMAIN tasks :
           (tasks[t].pc = "done" /\ tasks[t].outcome # "result") =>
             \E k \in RecordsOf(tasks[t].id) :
               /\ classifications_file[k].value["is_climate_or_energy"] = "false"
               /\ Get(classifications_file[k].value, "error") \notin { Null, "" }
      /\ (runs > 0 /\ ~gathering) =>
           /\ \A j \in DOMAIN ids : Cardinality(RecordsOf(ids[j])) = 1
           /\ \A i \in DOMAIN articles_file :
                ( /\ articles_file[i].valid
                  /\ Blank(TextParts(articles_file[i].value, DefaultTextFields))
                  /\ "uri" \in DOMAIN articles_file[i].value )
                  => RecordsOf(articles_file[i].value["uri"]) = {}

\* two runs are over: the output file began with the error record of A, the
\* first run classified the other article only, and its classification
\* failed
C25_Witness ==
  /\ runs = 2
  /\ ~gathering
  /\ Len(LoadedIds) = 2
  /\ Len(classifications_file) = 2
  /\ DOMAIN classified = { "unknown_2" }
  /\ classifications_file[1].value["uri"] = "A"
  /\ Get(classifications_file[2].value, "error") = "Failed after retries"

\* the classify_one calls in flight
InFlight == { t \in DOMAIN tasks : tasks[t].pc \in { "calling", "sleeping" } }

\* a complete line of the output file for this id
ResultLine(line, id) ==
  /\ line.valid
  /\ line.object
  /\ DOMAIN line.value \in { { "uri", "is_climate_or_energy", "justification" },
                             { "uri", "is_climate_or_energy", "justification", "error" } }
  /\ line.value["uri"] = id
  /\ line.value["is_climate_or_energy"] \in { "true", "false" }

\* C26: at most max_concurrent classify_one calls are in flight; every
\* task of a run acquires the semaphore and gets to its end, whatever its
\* API calls raise; and the output file changes only by one complete line
\* being appended by a task that ends
C26_BoundedConcurrency ==
  /\ [](/\ Cardinality(InFlight) <= max_concurrent
        /\ gathering => semaphore = max_concurrent - Cardinality(InFlight))
  /\ [][classifications_file' # classifications_file =>
          \E t \in DOMAIN tasks :
            /\ tasks[t].pc # "done"
            /\ tasks'[t].pc = "done"
            /\ Len(classifications_file') = Len(classifications_file) + 1
            /\ SubSeq(classifications_file', 1, Len(classifications_file))
                 = classifications_file
            /\ ResultLine(classifications_file'[Len(classifications_file')],
                          tasks[t].id)]_vars
  /\ \A t \in 1..MaxArticles :
       /\ (t \in DOMAIN tasks /\ tasks[t].pc = "waiting")
            ~> (t \in DOMAIN tasks /\ tasks[t].pc = "calling")
       /\ (t \in DOMAIN tasks /\ tasks[t].pc = "waiting")
            ~> (t \in DOMAIN tasks /\ tasks[t].pc = "done")

\* with max_concurrent = 1 one task waits for the semaphore while the call
\* of another is in flight
C26_Witness ==
  /\ max_concurrent = 1
  /\ semaphore = 0
  /\ \E t, u \in DOMAIN tasks :
       /\ tasks[t].pc = "waiting"
       /\ tasks[u].pc = "sleeping"

(***************************************************************************)
(* src/newsapi/newsapi_uri_finder.py: fetch_articles_concurrent.  The      *)
(* fetches run on the threads of a ThreadPoolExecutor and end in any       *)
(* order; the loop over as_completed runs on the calling thread.           *)
(***************************************************************************)
MaxUrls == 3

\* results = [None] * len(domain_urls)
NoResult == [ source_uri |-> Null, total_found |-> 0, status |-> Null ]

\* the dictionary of the except branches
ErrorResult == [ source_uri |-> Null, total_found |-> 0, status |-> "error" ]

\* what fetch_articles(url) returns: max_articles articles, fewer, or the
\* error dictionary
FetchResults(url) ==
  { [ source_uri |-> url, total_found |-> 50, status |-> "success" ],
    [ source_uri |-> url, total_found |-> 1, status |-> "partial" ],
    ErrorResult }

\* mutant of url_to_index: every position keeps its own index
OwnIndex(urls, i) == i

\* url_to_index = {url: i for i, url in enumerate(domain_urls)}, read at the
\* url of the future submitted at position i: the last position of that url
url_to_index(urls, i) ==
  CHOOSE k \in DOMAIN urls :
    /\ urls[k] = urls[i]
    /\ \A j \in DOMAIN urls : urls[j] = urls[i] => j <= k

\* the newspaper domains of the dataframe column
DomainUrls == { "u.com", "v.com" }

InitFetch ==
  /\ domain_urls \in SeqsUpTo(DomainUrls, MaxUrls)
  /\ futures = << >>
  /\ results = << >>
  /\ fetching = ""
  /\ NoClassify
  /\ NoCollect
  /\ NoMerge
  /\ keywords = << >>
  /\ bm25 = NotFitted
  /\ df = EmptyFrame
  /\ call = NoCall
  /\ ret = NoRet
  /\ query_tokens = << >>

\* what no step of fetch_articles_concurrent changes
FetchFrame ==
  /\ UNCHANGED domain_urls
  /\ UNCHANGED << scorerVars, mergeVars, classifyVars, collectVars >>

\* fetch_articles_concurrent(domain_urls) up to the loop: one future per
\* position, the results list of Nones
Submit ==
  /\ fetching = ""
  /\ futures' = [ i \in DOMAIN domain_urls |->
                    [ url |-> domain_urls[i], state |-> "running",
                      result |-> NoResult, raised |-> FALSE ] ]
  /\ results' = [ i \in DOMAIN domain_urls |-> NoResult ]
  /\ fetching' = "collecting"
  /\ FetchFrame

\* a worker thread ends the fetch of position i: fetch_articles returns, or
\* an exception gets out of it
Complete(i) ==
  /\ fetching = "collecting"
  /\ futures[i].state = "running"
  /\ \/ \E r \in FetchResults(futures[i].url) :
          futures' = [ futures EXCEPT ![i].state = "finished", ![i].result = r ]
     \/ futures' = [ futures EXCEPT ![i].state = "finished", ![i].raised = TRUE ]
  /\ UNCHANGED << results, fetching >>
  /\ FetchFrame

\* one pass of the loop over as_completed, for the future of position i
Collect(i) ==
  /\ fetching = "collecting"
  /\ futures[i].state = "finished"
  /\ futures' = [ futures EXCEPT ![i].state = "collected" ]
  /\ results' = [ results EXCEPT ![url_to_index(domain_urls, i)] =
                    IF futures[i].raised THEN ErrorResult ELSE futures[i].result ]
  /\ UNCHANGED fetching
  /\ FetchFrame

\* return results
ReturnResults ==
  /\ fetching = "collecting"
  /\ \A i \in DOMAIN futures : futures[i].state = "collected"
  /\ fetching' = "returned"
  /\ UNCHANGED << futures, results >>
  /\ FetchFrame

NextFetch ==
  \/ Submit
  \/ \E i \in DOMAIN futures : Complete(i)
  \/ \E i \in DOMAIN futures : Collect(i)
  \/ ReturnResults

SpecFetch == InitFetch /\ [][NextFetch]_vars

\* C30: the list fetch_articles_concurrent returns has, at every position,
\* the result of the fetch submitted for that position (the error
\* dictionary when the fetch raised), and no entry is None
C30_ResultsAligned ==
  fetching = "returned" =>
    /\ Len(results) = Len(domain_urls)
    /\ \A i \in DOMAIN domain_urls :
         /\ results[i] # NoResult
         /\ results[i] = IF futures[i].raised THEN ErrorResult ELSE futures[i].result

(***************************************************************************)
(* src/preprocess/make_climate_articles_json.py, lines 58-162: the concept *)
(* articles, the keyword articles and their union.  A dict is the sequence *)
(* of its items in insertion order.                                        *)
(***************************************************************************)
MaxFiles == 2

\* key in d, d[key], d[key] = value, and {**a, **b}
HasKey(d, key) == \E i \in DOMAIN d : d[i].key = key

Lookup(d, key) == d[CHOOSE i \in DOMAIN d : d[i].key = key].value

DictSet(d, key, value) ==
  IF HasKey(d, key)
    THEN [ i \in DOMAIN d |-> IF d[i].key = key THEN [ key |-> key, value |-> value ]
                                                ELSE d[i] ]
    ELSE Append(d, [ key |-> key, value |-> value ])

RECURSIVE Update(_, _)
Update(a, b) ==
  IF b = << >> THEN a
  ELSE DictSet(Update(a, SubSeq(b, 1, Len(b) - 1)), b[Len(b)].key, b[Len(b)].value)

\* BM25_THRESHOLD = 15.0
BM25_THRESHOLD == Float(15)

\* data/keywords_climate.json: keywords for 'en' only
climate_keywords ==
  [ l \in { "en" } |-> << << "a" >>, << "b" >>, << "c" >>, << "d" >>, << "e" >> >> ]

\* data['collection_method'] = method
Collected(data, method) == [ collection_method |-> method ] @@ data

\* the first loop: unique_articles after the files read so far
RECURSIVE ConceptLoop(_)
ConceptLoop(files) ==
  IF files = << >> THEN << >>
  ELSE \* the last file read, after the ones before it
    CHOOSE unique \in
      { IF /\ files[Len(files)].valid
           /\ Truthy(Get(files[Len(files)].value, "uri"))
           /\ ~HasKey(before, files[Len(files)].value["uri"])
          THEN Append(before, [ key   |-> files[Len(files)].value["uri"],
                                value |-> Collected(files[Len(files)].value, "concepts") ])
          ELSE before
        : before \in { ConceptLoop(SubSeq(files, 1, Len(files) - 1)) } } : TRUE

\* f"{title} {body}" with data.get('title', '') and data.get('body', '')
CombinedText(data) ==
  (IF "title" \in DOMAIN data THEN data["title"] ELSE << >>)
    \o << " " >> \o (IF "body" \in DOMAIN data THEN data["body"] ELSE << >>)

\* mutant of InConcepts: the keyword article is never taken for a duplicate
InConceptsNever(unique, uri) == FALSE

\* if uri in unique_articles
InConcepts(unique, uri) == HasKey(unique, uri)

\* the second loop: articles_with_scores after the files read so far, and
\* the uris calculate_bm25_score was called for
RECURSIVE KeywordLoop(_, _)
KeywordLoop(files, unique) ==
  IF files = << >> THEN [ articles_with_scores |-> << >>, scored |-> {} ]
  ELSE
    CHOOSE after \in
      { LET data == files[Len(files)].value
        IN IF ~files[Len(files)].valid THEN before
           ELSE IF ~Truthy(Get(data, "uri")) THEN before
           ELSE IF InConcepts(unique, data["uri"]) THEN before
           ELSE IF Get(data, "lang") \notin DOMAIN climate_keywords THEN before
           ELSE [ articles_with_scores |->
                    IF calculate_bm25_score(CombinedText(data),
                                            climate_keywords[data["lang"]])
                         >= BM25_THRESHOLD
                      THEN DictSet(before.articles_with_scores, data["uri"],
                                   Collected(data, "keywords"))
                      ELSE before.articles_with_scores,
                  scored |-> before.scored \cup { data["uri"] } ]
        : before \in { KeywordLoop(SubSeq(files, 1, Len(files) - 1), unique) } } : TRUE

\* 'a a a a a a a'
SevenWords ==
  << "a", " ", "a", " ", "a", " ", "a", " ", "a", " ", "a", " ", "a" >>

\* the files of data/articles_concepts: article X, another file with the
\* uri of X, a file without uri, and a file that is not JSON
ConceptArticleFiles ==
  { JsonLine([ uri |-> "X", lang |-> "en", title |-> << "a" >> ]),
    JsonLine([ uri |-> "X", lang |-> "de", title |-> << "b" >> ]),
    JsonLine([ lang |-> "en", title |-> << "a" >> ]),
    InvalidLine }

\* the files of data/articles: X again with fourteen keyword hits, Z with
\* fourteen hits, Z with one hit, and W in a language without keywords
KeywordArticleFiles ==
  { JsonLine([ uri |-> "X", lang |-> "en", title |-> SevenWords, body |-> SevenWords ]),
    JsonLine([ uri |-> "Z", lang |-> "en", title |-> SevenWords, body |-> SevenWords ]),
    JsonLine([ uri |-> "Z", lang |-> "en", title |-> << "a" >> ]),
    JsonLine([ uri |-> "W", lang |-> "de", title |-> SevenWords, body |-> SevenWords ]) }

InitCollect ==
  /\ concept_files \in SeqsUpTo(ConceptArticleFiles, MaxFiles)
  /\ keyword_files \in SeqsUpTo(KeywordArticleFiles, MaxFiles)
  /\ unique_articles = << >>
  /\ articles_with_scores = << >>
  /\ all_articles = << >>
  /\ scored = {}
  /\ stage = ""
  /\ NoClassify
  /\ NoFetch
  /\ NoMerge
  /\ keywords = << >>
  /\ bm25 = NotFitted
  /\ df = EmptyFrame
  /\ call = NoCall
  /\ ret = NoRet
  /\ query_tokens = << >>

\* what no part of the script changes
CollectFrame ==
  /\ UNCHANGED << concept_files, keyword_files >>
  /\ UNCHANGED << scorerVars, mergeVars, classifyVars, fetchVars >>

\* lines 65-95: the loop over the concept files
CollectConcepts ==
  /\ stage = ""
  /\ unique_articles' = ConceptLoop(concept_files)
  /\ stage' = "concepts"
  /\ UNCHANGED << articles_with_scores, all_articles, scored >>
  /\ CollectFrame

\* lines 107-157: the loop over the keyword files
CollectKeywords ==
  \E r \in { KeywordLoop(keyword_files, unique_articles) } :
    /\ stage = "concepts"
    /\ articles_with_scores' = r.articles_with_scores
    /\ scored' = r.scored
    /\ stage' = "keywords"
    /\ UNCHANGED << unique_articles, all_articles >>
    /\ CollectFrame

\* line 162: all_articles = {**unique_articles, **articles_with_scores}
Combine ==
  /\ stage = "keywords"
  /\ all_articles' = Update(unique_articles, articles_with_scores)
  /\ stage' = "combined"
  /\ UNCHANGED << unique_articles, articles_with_scores, scored >>
  /\ CollectFrame

NextCollect ==
  \/ CollectConcepts
  \/ CollectKeywords
  \/ Combine

SpecCollect == InitCollect /\ [][NextCollect]_vars

\* the positions of the concept files that hold an article with this uri
ConceptFilesOf(uri) ==
  { i \in DOMAIN concept_files :
      concept_files[i].valid /\ Get(concept_files[i].value, "uri") = uri }

\* C29: in all_articles every uri occurs once; a uri that a concept file
\* holds is there as the article of the first such file, marked 'concepts',
\* and was never scored; an article marked 'keywords' is the article of a
\* keyword file whose language has keywords and whose BM25 score is at
\* least the threshold
C29_Deduplicated ==
  stage = "combined" =>
    /\ \A i, j \in DOMAIN all_articles :
         all_articles[i].key = all_articles[j].key => i = j
    /\ \A i \in DOMAIN all_articles : all_articles[i].value["uri"] = all_articles[i].key
    /\ \A f \in DOMAIN concept_files :
         (concept_files[f].valid /\ Truthy(Get(concept_files[f].value, "uri"))) =>
           \E first \in ConceptFilesOf(concept_files[f].value["uri"]) :
             /\ \A other \in ConceptFilesOf(concept_files[f].value["uri"]) : first <= other
             /\ HasKey(all_articles, concept_files[f].value["uri"])
             /\ Lookup(all_articles, concept_files[f].value["uri"])
                  = [ collection_method |-> "concepts" ] @@ concept_files[first].value
             /\ concept_files[f].value["uri"] \notin scored
    /\ \A i \in DOMAIN all_articles :
         all_articles[i].value["collection_method"] = "keywords" =>
           /\ ConceptFilesOf(all_articles[i].key) = {}
           /\ \E f \in DOMAIN keyword_files :
                /\ keyword_files[f].valid
                /\ all_articles[i].value
                     = [ collection_method |-> "keywords" ] @@ keyword_files[f].value
                /\ keyword_files[f].value["lang"] \in DOMAIN climate_keywords
                /\ calculate_bm25_score(CombinedText(keyword_files[f].value),
                                        climate_keywords[keyword_files[f].value["lang"]])
                     >= BM25_THRESHOLD

\* X was collected by two concept files and by a keyword file and is kept
\* as the first concept file has it; Z was kept by its score
C29_Witness ==
  /\ stage = "combined"
  /\ Len(all_articles) = 2
  /\ Cardinality(ConceptFilesOf("X")) = 2
  /\ \E f \in DOMAIN keyword_files : keyword_files[f].value["uri"] = "X"
  /\ Lookup(all_articles, "X")["collection_method"] = "concepts"
  /\ Lookup(all_articles, "X")["lang"] = concept_files[1].value["lang"]
  /\ HasKey(all_articles, "Z")
  /\ Lookup(all_articles, "Z")["collection_method"] = "keywords"
  /\ scored = { "Z" }

====
